---- MODULE Spec2Model ----
(***************************************************************************)
(* Decoding core of RNNDecoder (neural_sp/models/seq2seq/decoders/las.py): *)
(* greedy, beam_search and beam_search_chunk_sync.                         *)
(*                                                                         *)
(* The neural network (embedding, recurrency, attention, generator,        *)
(* output layer) is a black box of the decoders.  It is modelled by `net`: *)
(*   - the output distribution after feeding token y to utterance b is a   *)
(*     vector of pairwise distinct integer log-scores -1 .. -VocabSize     *)
(*     whose best token is (net.r0 + net.r1 * y + eouts[b]) % VocabSize,   *)
(*     the others following it cyclically;                                 *)
(*   - the attention is one-hot: a step attends to one encoder frame, the  *)
(*     trigger point, which moves right by net.dur[y] for each fed token;  *)
(*     an attention vector that is all zero (no trigger point inside the   *)
(*     encoder output) is the frame 0.                                     *)
(* Scores are rationals [n, d] (d > 0) because of the divisions by the     *)
(* length normalisation factor and the GNMT length penalty.                *)
(* Python's 0-based positions b of the batch are 1-based here; the step    *)
(* counter t is 0-based as in the source.                                  *)
(***************************************************************************)
EXTENDS Integers, Sequences, FiniteSets, TLC

\* ---------------------------------------------------------------- bounds
VocabSize == 3
MaxBeam == 2
MaxElen == 2

Vocab == 0 .. (VocabSize - 1)

\* None of Python, for the recurrent state and the LM state (sequences here).
NoneState == << -1 >>
\* zero_state(bs): the recurrent state that has consumed no token.
ZeroState == << >>

VARIABLES
    cfg,        \* the decoder instance's configuration: eos, replace_sos
    net,        \* the black-box network: r0, r1, dur
    dec,        \* persisted decoder state: prev_spk, dstates_final, lmstate_final,
                \* n_frames
    inp,        \* the arguments of the running call
    pc,         \* position in the running call
    b,          \* beam_search: utterance being decoded (1-based)
    t,          \* the decoding step of the running loop
    hyps,       \* the live hypotheses (hyps of beam_search, hyps_segment of
                \* beam_search_chunk_sync)
    end_hyps,   \* the completed hypotheses
    outs,       \* what the call has produced so far
    g,          \* the locals of greedy
    ref,        \* the result of a reference run that a later run is compared with
    aux         \* history kept for stating properties (not program state)

vars == << cfg, net, dec, inp, pc, b, t, hyps, end_hyps, outs, g, ref, aux >>

\* ------------------------------------------------------------ arithmetic
RECURSIVE Pow(_, _)
Pow(x, n) == IF n = 0 THEN 1 ELSE x * Pow(x, n - 1)

Rat(n, d) == [n |-> n, d |-> d]
RatLess(x, y) == x.n * y.d < y.n * x.d

Last(s) == s[Len(s)]
Front(s) == SubSeq(s, 1, Len(s) - 1)
Take(s, n) == SubSeq(s, 1, IF n < Len(s) THEN n ELSE Len(s))

RECURSIVE Reverse(_)
Reverse(s) == IF s = << >> THEN << >> ELSE Append(Reverse(Tail(s)), Head(s))

\* ------------------------------------------------------- the black box
\* scores_attn[j, :] after feeding y to utterance u: log-probabilities.
ScoresAttn(u, y) ==
    [v \in Vocab |->
        0 - (1 + ((v + VocabSize - ((net.r0 + net.r1 * y + inp.eouts[u]) % VocabSize))
                    % VocabSize))]

\* The trigger point of the step that has been fed the tokens `fed`.
RECURSIVE DurSum(_)
DurSum(s) == IF s = << >> THEN 0 ELSE net.dur[Head(s)] + DurSum(Tail(s))

TriggerPoint(fed) == 1 + DurSum(Tail(fed))

\* aw of a step over encoder frames lo .. hi: the attended frame, 0 when the
\* attention weights are all zero (the trigger point lies beyond frame hi).
AttendFrame(fed, lo, hi) ==
    LET p == TriggerPoint(fed)
    IN  IF p > hi THEN 0 ELSE IF p < lo THEN lo ELSE p

\* ------------------------------------------------------------- sorting
\* sorted(xs, key=lambda x: x['score'], reverse=True): stable, descending.
RECURSIVE InsertByScore(_, _)
InsertByScore(sorted, x) ==
    IF sorted = << >> THEN << x >>
    ELSE IF RatLess(Head(sorted).score, x.score)
         THEN << x >> \o sorted
         ELSE << Head(sorted) >> \o InsertByScore(Tail(sorted), x)

RECURSIVE SortedByScore(_)
SortedByScore(xs) ==
    IF xs = << >> THEN << >>
    ELSE InsertByScore(SortedByScore(Front(xs)), Last(xs))

\* torch.topk(scores, k, largest=True, sorted=True) over the vocabulary: the
\* token ids of the k best scores, best first.
RECURSIVE TopKFrom(_, _, _)
TopKFrom(f, S, k) ==
    IF k = 0 \/ S = {} THEN << >>
    ELSE LET v == CHOOSE x \in S : \A w \in S : f[w] < f[x] \/ (f[w] = f[x] /\ x <= w)
         IN  << v >> \o TopKFrom(f, S \ {v}, k - 1)

TopK(f, k) == TopKFrom(f, Vocab, k)

\* ------------------------------------------------------ hypotheses
\* The hypothesis every utterance starts from (beam_search) and the first
\* chunk starts from (beam_search_chunk_sync).  aws starts as [None] (-1).
InitialHyp(dstates, lmstate) ==
    [hyp |-> << cfg.eos >>,
     score |-> Rat(0, 1),
     score_attn |-> 0,
     dstates |-> dstates,
     aws |-> << -1 >>,
     lmstate |-> lmstate]

\* A faulty extension: the last token of the parent is overwritten.
OverwriteLast(beam, idx, total_score, sv, dstates, aw) ==
    [hyp |-> [beam.hyp EXCEPT ![Len(beam.hyp)] = idx],
     score |-> total_score,
     score_attn |-> beam.score_attn + sv[idx],
     dstates |-> dstates,
     aws |-> Append(beam.aws, aw),
     lmstate |-> NoneState]

\* The new hypothesis of a candidate: beam['hyp'] + [idx] is a new list.
ExtendHyp(beam, idx, total_score, sv, dstates, aw) ==
    [hyp |-> Append(beam.hyp, idx),
     score |-> total_score,
     score_attn |-> beam.score_attn + sv[idx],
     dstates |-> dstates,
     aws |-> Append(beam.aws, aw),
     lmstate |-> NoneState]

\* ---------------------------------------------------- beam_search
\* A faulty ytime: one step too many.
YTimeOneMore(u) ==
    IF inp.params.recog_oracle
    THEN Len(inp.refs_id[u]) + 1
    ELSE (inp.elens[u] * inp.params.recog_max_len_ratio) + 2

\* ytime of utterance u.
YTime(u) ==
    IF inp.params.recog_oracle
    THEN Len(inp.refs_id[u]) + 1
    ELSE (inp.elens[u] * inp.params.recog_max_len_ratio) + 1

\* The token fed for `beam` at step tt of utterance u.
PrevIdx(beam, u, tt) ==
    IF cfg.replace_sos /\ tt = 0 THEN inp.refs_id[1][1]
    ELSE IF inp.params.recog_oracle THEN (<< cfg.eos >> \o inp.refs_id[u])[tt + 1]
    ELSE Last(beam.hyp)

\* The tokens fed in this utterance, read off the recurrent state.
FedInUtt(dstates, tt) == SubSeq(dstates, Len(dstates) - tt, Len(dstates))

\* total_scores_topk[0, k] after the length penalty, before normalisation.
LengthPenalty(x, beam) ==
    LET lp_weight == inp.params.recog_length_penalty
        len == Len(beam.hyp) - 1
    IN  IF lp_weight > 0
        THEN IF inp.params.recog_gnmt_decoding
             THEN Rat(x.n * Pow(6, lp_weight), x.d * Pow(6 + len, lp_weight))
             ELSE Rat(x.n + (len + 1) * lp_weight * x.d, x.d)
        ELSE x

LengthNorm(x, beam, length_norm) ==
    IF length_norm THEN Rat(x.n, x.d * ((Len(beam.hyp) - 1) + 1)) ELSE x

\* scores_attn[j, :idx].max(0) and scores_attn[j, idx + 1:].max(0): the
\* maximum of an empty tensor raises.
EmptyMax(idx) == idx = 0 \/ idx = VocabSize - 1

MaxScoreNoEos(sv, idx) ==
    LET S == { sv[v] : v \in Vocab \ {idx} }
    IN  CHOOSE m \in S : \A x \in S : x <= m

\* The outcome of an end-symbol candidate: "short" and "threshold" drop it,
\* "raise" is the failing maximum, "keep" lets it through.
EosTest(beam, sv, idx, minLen2) ==
    IF 2 * (Len(beam.hyp) - 1) < minLen2 THEN "short"
    ELSE IF EmptyMax(idx) THEN "raise"
    ELSE IF sv[idx] <= inp.params.recog_eos_threshold * MaxScoreNoEos(sv, idx)
         THEN "threshold"
         ELSE "keep"

\* The candidates of one live hypothesis (the loop over k): the children in
\* the order they are appended, and whether the loop raised.
RECURSIVE BeamKids(_, _, _, _, _, _, _)
BeamKids(beam, sv, topk, k, dstates, aw, u) ==
    IF k > Len(topk) THEN [raised |-> FALSE, kids |-> << >>]
    ELSE
    LET idx == topk[k]
        topk_score == LengthPenalty(Rat(beam.score_attn + sv[idx], 1), beam)
        total_score == LengthNorm(topk_score, beam, inp.params.recog_length_norm)
        verdict == IF idx = cfg.eos
                   THEN EosTest(beam, sv, idx, inp.elens[u] * inp.params.recog_min_len_ratio)
                   ELSE "keep"
        rest == BeamKids(beam, sv, topk, k + 1, dstates, aw, u)
    IN  IF verdict = "raise" THEN [raised |-> TRUE, kids |-> << >>]
        ELSE IF verdict = "keep"
             THEN [raised |-> rest.raised,
                   kids |-> << ExtendHyp(beam, idx, total_score, sv, dstates, aw) >> \o rest.kids]
             ELSE rest

BeamCandidates(beam, u, tt) ==
    LET y == PrevIdx(beam, u, tt)
        sv == ScoresAttn(u, y)
        dstates == Append(beam.dstates, y)
        aw == AttendFrame(FedInUtt(dstates, tt), 1, inp.elens[u])
        total_scores == [v \in Vocab |-> beam.score_attn + sv[v]]
        topk == TopK(total_scores, inp.params.recog_beam_width)
    IN  BeamKids(beam, sv, topk, 1, dstates, aw, u)

\* new_hyps after the loop over the live hypotheses.
RECURSIVE AllCandidates(_, _, _)
AllCandidates(live, u, tt) ==
    IF live = << >> THEN [raised |-> FALSE, kids |-> << >>]
    ELSE LET first == BeamCandidates(Head(live), u, tt)
             rest == AllCandidates(Tail(live), u, tt)
         IN  [raised |-> first.raised \/ rest.raised, kids |-> first.kids \o rest.kids]

\* A faulty local pruning: sorted, not cut.
SortOnly(new_hyps, beam_width) == SortedByScore(new_hyps)

\* Local pruning.
LocalPruning(new_hyps, beam_width) == Take(SortedByScore(new_hyps), beam_width)

\* A faulty completion test: hypotheses are completed by the step limit only,
\* in every mode.
CompleteAtLimit(hyp, u, tt) == tt = YTime(u) - 1

\* A faulty completion test: a hypothesis is completed by its end symbol in
\* every mode.
CompleteAtEos(hyp, u, tt) == Len(hyp.hyp) > 1 /\ Last(hyp.hyp) = cfg.eos

\* "Remove complete hypotheses": is hyp moved to end_hyps at step tt?
IsComplete(hyp, u, tt) ==
    IF inp.params.recog_oracle
    THEN tt = Len(inp.refs_id[u])
    ELSE Len(hyp.hyp) > 1 /\ Last(hyp.hyp) = cfg.eos

\* ------------------------------------------------- beam_search: the call
NoOuts == [nbest_hyps_idx |-> << >>, aws |-> << >>, scores |-> << >>, eos_flags |-> << >>]
NoGreedy == [hyps_batch |-> << >>, aws_batch |-> << >>, ylens |-> << >>, eos_flags |-> << >>,
             y |-> << >>, fed |-> << >>, ytime |-> 0, hyps |-> << >>, aws |-> << >>]
NoRef == [set |-> FALSE, xlen |-> 0, end_hyps |-> << >>, hyps |-> << >>, drift |-> FALSE,
          first_end |-> << >>]
NoAux == [steps |-> 0, last_live |-> << >>, emptied |-> FALSE, raised |-> "",
          completed |-> << >>, parents |-> << >>, kids |-> << >>,
          dec_at_call |-> << >>, drift |-> FALSE,
          calls |-> 0, prev_best |-> NoneState]

Params(oracle, beam_width, min_len_ratio, lp_weight, length_norm, gnmt, eos_threshold, carry) ==
    [recog_oracle |-> oracle,
     recog_beam_width |-> beam_width,
     recog_max_len_ratio |-> 1,
     recog_min_len_ratio |-> min_len_ratio,   \* in halves: 1 is the ratio 0.5
     recog_length_penalty |-> lp_weight,
     recog_length_norm |-> length_norm,
     recog_gnmt_decoding |-> gnmt,
     recog_eos_threshold |-> eos_threshold,
     recog_asr_state_carry_over |-> carry]

\* A faulty entry: nbest is not checked.
BeamSearchCallUnchecked(i) ==
    /\ inp' = i
    /\ outs' = NoOuts
    /\ aux' = [NoAux EXCEPT !.dec_at_call = dec, !.calls = aux.calls + 1,
                             !.prev_best = aux.prev_best]
    /\ pc' = "utt"
    /\ b' = 1
    /\ UNCHANGED << cfg, net, ref, dec, t, hyps, end_hyps, g >>

\* Lines 866-898: the arguments are read and checked; nothing is decoded and
\* no field of the decoder is written before the assertion on nbest.
BeamSearchCall(i) ==
    /\ inp' = i
    /\ outs' = NoOuts
    /\ aux' = [NoAux EXCEPT !.dec_at_call = dec, !.calls = aux.calls + 1,
                             !.prev_best = aux.prev_best]
    /\ IF 1 <= i.nbest /\ i.nbest <= i.params.recog_beam_width
       THEN /\ pc' = "utt"
            /\ b' = 1
       ELSE /\ pc' = "error"          \* AssertionError
            /\ b' = 0
    /\ UNCHANGED << cfg, net, ref, dec, t, hyps, end_hyps, g >>

\* Lines 900-950: the initialisation of utterance b.
UttInit ==
    /\ pc = "utt"
    /\ LET same == inp.has_speakers /\ inp.speakers[b] = dec.prev_spk
           dstates == IF same /\ inp.params.recog_asr_state_carry_over
                      THEN dec.dstates_final ELSE ZeroState
       IN  /\ dec' = IF inp.has_speakers
                     THEN [dec EXCEPT !.prev_spk = inp.speakers[b]] ELSE dec
           /\ hyps' = << InitialHyp(dstates, NoneState) >>
    /\ end_hyps' = << >>
    /\ t' = 0
    /\ aux' = [NoAux EXCEPT !.last_live = hyps', !.dec_at_call = aux.dec_at_call,
                             !.calls = aux.calls, !.prev_best = aux.prev_best]
    /\ IF inp.params.recog_oracle /\ ~inp.has_refs
       THEN pc' = "error"             \* assert refs_id is not None
       ELSE pc' = "step"
    /\ UNCHANGED << cfg, net, ref, inp, b, outs, g >>

\* Lines 951-1123: one pass of the loop over t.
Step ==
    /\ pc = "step"
    /\ LET cands == AllCandidates(hyps, b, t)
           beam_width == inp.params.recog_beam_width
           new_hyps_sorted == LocalPruning(cands.kids, beam_width)
           done == SelectSeq(new_hyps_sorted, LAMBDA h : IsComplete(h, b, t))
           new_hyps == SelectSeq(new_hyps_sorted, LAMBDA h : ~IsComplete(h, b, t))
           ends == end_hyps \o done
       IN  IF hyps = << >> \/ (\E j \in 1 .. Len(hyps) : hyps[j].dstates = NoneState)
           THEN \* torch.cat of an empty list; None['dstate']
                /\ pc' = "error"
                /\ aux' = [aux EXCEPT !.raised = IF hyps = << >> THEN "empty" ELSE "none"]
                /\ UNCHANGED << hyps, end_hyps, t >>
           ELSE IF cands.raised
           THEN /\ pc' = "error"
                /\ aux' = [aux EXCEPT !.raised = "max"]
                /\ UNCHANGED << hyps, end_hyps, t >>
           ELSE /\ aux' = [aux EXCEPT !.steps = @ + 1,
                                      !.parents = hyps,
                                      !.kids = cands.kids,
                                      !.completed = done,
                                      !.emptied = @ \/ cands.kids = << >>,
                                      !.last_live = IF new_hyps = << >> THEN @ ELSE new_hyps]
                /\ IF Len(ends) >= beam_width
                   THEN /\ end_hyps' = Take(ends, beam_width)
                        /\ pc' = "global"
                        /\ UNCHANGED << hyps, t >>
                   ELSE /\ end_hyps' = ends
                        /\ hyps' = new_hyps
                        /\ IF t + 1 < YTime(b)
                           THEN /\ t' = t + 1
                                /\ pc' = "step"
                           ELSE /\ t' = t
                                /\ pc' = "global"
    /\ UNCHANGED << cfg, net, ref, dec, inp, b, outs, g >>

\* Lines 1125-1129.
GlobalPruning(ends, live, nbest) ==
    IF Len(ends) = 0 THEN live
    ELSE IF Len(ends) < nbest /\ nbest > 1
         THEN ends \o Take(live, nbest - Len(ends))
         ELSE ends

\* Lines 1164-1175: the n-best list of one utterance.
HypOut(h) == IF cfg.bwd THEN Reverse(Tail(h.hyp)) ELSE Tail(h.hyp)
AwsOut(h) == IF cfg.bwd THEN Reverse(Tail(h.aws)) ELSE Tail(h.aws)

\* Lines 1125-1175: global pruning, sort, n-best list of utterance b.
Finish ==
    /\ pc = "global"
    /\ LET ends == SortedByScore(GlobalPruning(end_hyps, hyps, inp.nbest))
       IN  IF Len(ends) < inp.nbest
           THEN \* IndexError: end_hyps[n] for n in range(nbest), end_hyps[0]
                /\ pc' = "error"
                /\ end_hyps' = ends
                /\ aux' = [aux EXCEPT !.raised = "index"]
                /\ UNCHANGED << outs, b >>
           ELSE /\ end_hyps' = ends
                /\ outs' = [nbest_hyps_idx |-> Append(outs.nbest_hyps_idx,
                                [k \in 1 .. inp.nbest |-> HypOut(ends[k])]),
                            aws |-> Append(outs.aws, AwsOut(ends[1])),
                            scores |-> Append(outs.scores,
                                [k \in 1 .. inp.nbest |-> ends[k].score_attn]),
                            eos_flags |-> Append(outs.eos_flags,
                                [k \in 1 .. inp.nbest |-> Last(ends[k].hyp) = cfg.eos])]
                /\ aux' = [aux EXCEPT !.prev_best = ends[1].dstates]
                /\ IF b < inp.bs
                   THEN /\ b' = b + 1
                        /\ pc' = "utt"
                   ELSE /\ b' = b
                        /\ pc' = "return"
    /\ UNCHANGED << cfg, net, ref, dec, inp, t, hyps, g >>

\* Lines 1177-1184: one returned sequence with the end symbol excluded.
ExcludeEos(seq, flag) ==
    IF flag THEN (IF cfg.bwd THEN Tail(seq) ELSE Front(seq)) ELSE seq

\* Lines 1177-1190: exclude <eos>, store the final state, return.
Return ==
    /\ pc = "return"
    /\ outs' = [outs EXCEPT !.nbest_hyps_idx =
                  IF inp.exclude_eos
                  THEN [u \in 1 .. inp.bs |->
                          [k \in 1 .. inp.nbest |->
                              ExcludeEos(outs.nbest_hyps_idx[u][k], outs.eos_flags[u][k])]]
                  ELSE @]
    /\ dec' = [dec EXCEPT !.dstates_final = end_hyps[1].dstates,
                          !.lmstate_final = end_hyps[1].lmstate]
    /\ pc' = "done"
    /\ UNCHANGED << cfg, net, ref, inp, b, t, hyps, end_hyps, g, aux >>

\* Lines 810-815: one greedy sequence with the end symbol excluded.
ExcludeGreedyEos(seq, flag) ==
    IF flag THEN (IF cfg.bwd THEN Tail(seq) ELSE Front(seq)) ELSE seq

\* ------------------------------------------------------------ greedy
\* A faulty padded length: one frame too many.
XTimePlusOne(i) == 1 + (CHOOSE m \in { i.elens[u] : u \in 1 .. i.bs } :
                            \A u \in 1 .. i.bs : i.elens[u] <= m)

\* eouts.size(1): the padded length of the batch.
XTime(i) == CHOOSE m \in { i.elens[u] : u \in 1 .. i.bs } :
                \A u \in 1 .. i.bs : i.elens[u] <= m

MaxRefLen(i) == CHOOSE m \in { Len(i.refs_id[u]) : u \in 1 .. i.bs } :
                    \A u \in 1 .. i.bs : Len(i.refs_id[u]) <= m

\* self.output(attn_v).argmax(-1) for one utterance.
ArgMax(sv) == CHOOSE v \in Vocab : \A w \in Vocab : sv[w] < sv[v] \/ (sv[w] = sv[v] /\ v <= w)

\* Lines 741-761 of greedy.  g.fed[u] is the recurrent state of utterance u:
\* the tokens it has been fed.
GreedyCall(i) ==
    /\ pc = "idle"
    /\ inp' = i
    /\ IF i.params.recog_oracle /\ ~i.has_refs
       THEN /\ pc' = "error"
            /\ g' = NoGreedy
       ELSE /\ pc' = "greedy_step"
            /\ g' = [NoGreedy EXCEPT
                       !.y = [u \in 1 .. i.bs |->
                                IF cfg.replace_sos THEN i.refs_id[1][1] ELSE cfg.eos],
                       !.fed = [u \in 1 .. i.bs |-> << >>],
                       !.ylens = [u \in 1 .. i.bs |-> 0],
                       !.eos_flags = [u \in 1 .. i.bs |-> FALSE],
                       !.ytime = IF i.params.recog_oracle
                                 THEN MaxRefLen(i) + 1
                                 ELSE (XTime(i) * i.params.recog_max_len_ratio) + 1]
    /\ t' = 0
    /\ outs' = NoOuts
    /\ aux' = NoAux
    /\ UNCHANGED << cfg, net, ref, dec, b, hyps, end_hyps >>

\* Lines 762-792: one pass of the loop over t.
GreedyStep ==
    /\ pc = "greedy_step"
    /\ LET bs == inp.bs
           fed == [u \in 1 .. bs |-> Append(g.fed[u], g.y[u])]
           aw == [u \in 1 .. bs |-> AttendFrame(fed[u], 1, inp.elens[u])]
           y == [u \in 1 .. bs |-> ArgMax(ScoresAttn(u, g.y[u]))]
           flags == [u \in 1 .. bs |-> g.eos_flags[u] \/ y[u] = cfg.eos]
           ylens == [u \in 1 .. bs |-> IF g.eos_flags[u] THEN g.ylens[u] ELSE g.ylens[u] + 1]
           stop == (\A u \in 1 .. bs : flags[u]) \/ t = g.ytime - 1
           g1 == [g EXCEPT !.hyps_batch = Append(@, y),
                           !.aws_batch = Append(@, aw),
                           !.fed = fed,
                           !.eos_flags = flags,
                           !.ylens = ylens,
                           !.y = y]
       IN  /\ aux' = [aux EXCEPT !.steps = @ + 1]
           /\ IF stop
              THEN /\ g' = g1
                   /\ pc' = "greedy_return"
                   /\ t' = t
              ELSE IF inp.params.recog_oracle
              THEN IF \E u \in 1 .. bs : t + 1 > Len(inp.refs_id[u])
                   THEN \* refs_id[b][t]: list index out of range
                        /\ g' = g1
                        /\ pc' = "error"
                        /\ t' = t
                   ELSE /\ g' = [g1 EXCEPT !.y = [u \in 1 .. bs |-> inp.refs_id[u][t + 1]]]
                        /\ pc' = "greedy_step"
                        /\ t' = t + 1
              ELSE /\ g' = g1
                   /\ pc' = "greedy_step"
                   /\ t' = t + 1
    /\ UNCHANGED << cfg, net, ref, dec, inp, b, hyps, end_hyps, outs >>

\* A faulty truncation: all the steps of the batch.
ColumnAll(rows, u, n) == [k \in 1 .. Len(rows) |-> rows[k][u]]

\* Column u of the per-step rows, truncated to its first n steps.
Column(rows, u, n) == [k \in 1 .. n |-> rows[k][u]]

\* Lines 794-827: truncate by the first <eos>, exclude <eos>, return.
GreedyReturn ==
    /\ pc = "greedy_return"
    /\ LET bs == inp.bs
           cut == [u \in 1 .. bs |-> Column(g.hyps_batch, u, g.ylens[u])]
           awc == [u \in 1 .. bs |-> Column(g.aws_batch, u, g.ylens[u])]
           hs == [u \in 1 .. bs |-> IF cfg.bwd THEN Reverse(cut[u]) ELSE cut[u]]
       IN  g' = [g EXCEPT !.hyps = [u \in 1 .. bs |->
                                      IF inp.exclude_eos
                                      THEN ExcludeGreedyEos(hs[u], g.eos_flags[u])
                                      ELSE hs[u]],
                          !.aws = awc]
    /\ dec' = [dec EXCEPT !.lmstate_final = NoneState]
    /\ pc' = "greedy_done"
    /\ UNCHANGED << cfg, net, ref, inp, b, t, hyps, end_hyps, outs, aux >>

\* __init__ sets prev_spk, dstates_final and lmstate_final and no n_frames:
\* the attribute does not exist (-1 here) until a first chunk sets it to 0.
FreshDecoder == [prev_spk |-> 0, dstates_final |-> NoneState, lmstate_final |-> NoneState,
                 n_frames |-> -1]

\* ------------------------------------------- beam_search_chunk_sync
ChunkLo == dec.n_frames + 1
ChunkHi == dec.n_frames + inp.elens[1]

\* aw[j] of the step for `beam` in the current chunk (0: aw[j].sum() == 0).
ChunkAw(beam) == AttendFrame(beam.hyp, ChunkLo, ChunkHi)

\* Lines 1291-1294: beam['aws'][-1] is overwritten in place and the
\* hypothesis is passed on as a copy; no_trigger is left as it is.
PassThrough(beam) == [beam EXCEPT !.aws[Len(beam.aws)] = 0]

\* What the in-place write leaves in hyps_segment itself.
AfterInPlace(live) ==
    [j \in 1 .. Len(live) |-> IF ChunkAw(live[j]) = 0 THEN PassThrough(live[j]) ELSE live[j]]

\* Lines 1235-1245.
InitialChunkHyp(dstates, lmstate) ==
    [hyp |-> << cfg.eos >>,
     score |-> Rat(0, 1),
     score_attn |-> 0,
     dstates |-> dstates,
     aws |-> << -1 >>,
     lmstate |-> lmstate,
     no_trigger |-> FALSE]

ExtendChunkHyp(beam, idx, total_score, sv, dstates, aw) ==
    [hyp |-> Append(beam.hyp, idx),
     score |-> total_score,
     score_attn |-> beam.score_attn + sv[idx],
     dstates |-> dstates,
     aws |-> Append(beam.aws, aw),
     lmstate |-> NoneState,
     no_trigger |-> FALSE]

\* Lines 1334-1339.
ChunkEosTest(sv, idx) ==
    IF EmptyMax(idx) THEN "raise"
    ELSE IF sv[idx] <= inp.params.recog_eos_threshold * MaxScoreNoEos(sv, idx)
         THEN "threshold"
         ELSE "keep"

\* Lines 1330-1352: the loop over k for one hypothesis with a trigger point.
RECURSIVE ChunkKids(_, _, _, _, _, _)
ChunkKids(beam, sv, topk, k, dstates, aw) ==
    IF k > Len(topk) THEN [raised |-> FALSE, kids |-> << >>]
    ELSE
    LET idx == topk[k]
        len == Len(beam.hyp) - 1
        topk_score == (beam.score_attn + sv[idx]) + (len + 1) * inp.params.recog_length_penalty
        total_score == Rat(topk_score, len + 1)
        verdict == IF idx = cfg.eos THEN ChunkEosTest(sv, idx) ELSE "keep"
        rest == ChunkKids(beam, sv, topk, k + 1, dstates, aw)
    IN  IF verdict = "raise" THEN [raised |-> TRUE, kids |-> << >>]
        ELSE IF verdict = "keep"
             THEN [raised |-> rest.raised,
                   kids |-> << ExtendChunkHyp(beam, idx, total_score, sv, dstates, aw) >>
                            \o rest.kids]
             ELSE rest

\* Lines 1289-1352: the body of the loop over the live hypotheses.
ChunkCandidates(beam) ==
    LET y == Last(beam.hyp)
        sv == ScoresAttn(1, y)
        dstates == Append(beam.dstates, y)
        aw == ChunkAw(beam)
        total_scores == [v \in Vocab |-> beam.score_attn + sv[v]]
        topk == TopK(total_scores, inp.params.recog_beam_width)
    IN  IF aw = 0
        THEN [raised |-> FALSE, kids |-> << PassThrough(beam) >>]
        ELSE ChunkKids(beam, sv, topk, 1, dstates, aw)

RECURSIVE AllChunkCandidates(_)
AllChunkCandidates(live) ==
    IF live = << >> THEN [raised |-> FALSE, kids |-> << >>]
    ELSE LET first == ChunkCandidates(Head(live))
             rest == AllChunkCandidates(Tail(live))
         IN  [raised |-> first.raised \/ rest.raised, kids |-> first.kids \o rest.kids]

\* The position in the loop over the live hypotheses at which the end-symbol
\* test raises: the first hypothesis whose candidates raise.
RaisedAt(live) ==
    CHOOSE j \in 1 .. Len(live) :
        /\ ChunkCandidates(live[j]).raised
        /\ \A i \in 1 .. (j - 1) : ~ChunkCandidates(live[i]).raised

\* What the in-place write of line 1292 has left in hyps_segment when the
\* loop raises at position n: the hypotheses before n have been visited.
InPlaceBefore(live, n) ==
    [j \in 1 .. Len(live) |->
        IF j < n /\ ChunkAw(live[j]) = 0 THEN PassThrough(live[j]) ELSE live[j]]

\* Line 1252.
AllNoTrigger(live) == \A j \in 1 .. Len(live) : live[j].no_trigger

ChunkYTime == (inp.elens[1] * inp.params.recog_max_len_ratio) + 1

\* Lines 1195-1248.  The first chunk of an utterance has hyps_segment None;
\* a later chunk is given the hyps_segment the previous call returned.
ChunkCall(i) ==
    /\ inp' = i
    /\ LET dstates == IF i.state_carry_over THEN dec.dstates_final ELSE ZeroState
       IN  IF i.first
           THEN /\ dec' = [dec EXCEPT !.n_frames = 0]
                /\ hyps' = << InitialChunkHyp(dstates, NoneState) >>
           ELSE UNCHANGED << dec, hyps >>
    /\ end_hyps' = << >>
    /\ t' = 0
    /\ b' = 1
    /\ pc' = "chunk_step"
    /\ aux' = [NoAux EXCEPT !.last_live = hyps', !.drift = ~i.first /\ aux.drift,
                             !.dec_at_call = dec]
    /\ UNCHANGED << cfg, net, outs, g >>

\* Lines 1250-1367: one pass of the loop over t.
ChunkStep ==
    /\ pc = "chunk_step"
    /\ LET cands == AllChunkCandidates(hyps)
           beam_width == inp.params.recog_beam_width
           new_hyps_sorted == LocalPruning(cands.kids, beam_width)
           done == SelectSeq(new_hyps_sorted,
                             LAMBDA h : Len(h.hyp) > 1 /\ Last(h.hyp) = cfg.eos)
           new_hyps == SelectSeq(new_hyps_sorted,
                             LAMBDA h : ~(Len(h.hyp) > 1 /\ Last(h.hyp) = cfg.eos))
           ends == end_hyps \o done
       IN  IF t > 0 /\ AllNoTrigger(hyps)
           THEN /\ pc' = "chunk_return"
                /\ UNCHANGED << hyps, end_hyps, t, aux >>
           ELSE IF hyps = << >> \/ (\E j \in 1 .. Len(hyps) : hyps[j].dstates = NoneState)
           THEN /\ pc' = "error"
                /\ aux' = [aux EXCEPT !.raised = IF hyps = << >> THEN "empty" ELSE "none"]
                /\ UNCHANGED << hyps, end_hyps, t >>
           ELSE IF cands.raised
           THEN \* lines 1336-1337, after the writes of line 1292 for the
                \* hypotheses visited before
                /\ pc' = "error"
                /\ aux' = [aux EXCEPT !.raised = "max"]
                /\ hyps' = InPlaceBefore(hyps, RaisedAt(hyps))
                /\ UNCHANGED << end_hyps, t >>
           ELSE /\ aux' = [aux EXCEPT !.steps = @ + 1,
                                      !.parents = hyps,
                                      !.kids = cands.kids,
                                      !.completed = done,
                                      !.emptied = @ \/ cands.kids = << >>,
                                      !.last_live = IF new_hyps = << >> THEN @ ELSE new_hyps,
                                      !.drift = @ \/ \E j \in 1 .. Len(hyps) :
                                                       TriggerPoint(hyps[j].hyp) < ChunkLo]
                /\ IF Len(ends) >= beam_width
                   THEN /\ end_hyps' = Take(ends, beam_width)
                        /\ hyps' = AfterInPlace(hyps)
                        /\ pc' = "chunk_return"
                        /\ t' = t
                   ELSE /\ end_hyps' = ends
                        /\ hyps' = new_hyps
                        /\ IF t + 1 < ChunkYTime
                           THEN /\ t' = t + 1
                                /\ pc' = "chunk_step"
                           ELSE /\ t' = t
                                /\ pc' = "chunk_return"
    /\ UNCHANGED << cfg, net, ref, dec, inp, b, outs, g >>

\* A faulty return: the state of the hypothesis completed first is stored.
ChunkReturnFirst ==
    /\ pc = "chunk_return"
    /\ dec.n_frames # FreshDecoder.n_frames
    /\ end_hyps' = SortedByScore(end_hyps)
    /\ dec' = [dec EXCEPT !.dstates_final = IF Len(end_hyps) > 0
                                            THEN end_hyps[1].dstates ELSE @,
                          !.lmstate_final = IF Len(end_hyps) > 0
                                            THEN end_hyps[1].lmstate ELSE @,
                          !.n_frames = @ + inp.elens[1]]
    /\ pc' = "done"
    /\ UNCHANGED << cfg, net, ref, inp, b, t, hyps, outs, g, aux >>

\* Lines 1369-1397: sort end_hyps, store the final state, count the frames.
\* self.n_frames += ... on a decoder that has no n_frames raises
\* AttributeError, after the final state has been stored.
ChunkReturn ==
    /\ pc = "chunk_return"
    /\ end_hyps' = SortedByScore(end_hyps)
    /\ IF dec.n_frames = FreshDecoder.n_frames
       THEN /\ dec' = [dec EXCEPT !.dstates_final = IF Len(end_hyps) > 0
                                                    THEN end_hyps'[1].dstates ELSE @,
                                  !.lmstate_final = IF Len(end_hyps) > 0
                                                    THEN end_hyps'[1].lmstate ELSE @]
            /\ pc' = "error"
       ELSE /\ dec' = [dec EXCEPT !.dstates_final = IF Len(end_hyps) > 0
                                                    THEN end_hyps'[1].dstates ELSE @,
                                  !.lmstate_final = IF Len(end_hyps) > 0
                                                    THEN end_hyps'[1].lmstate ELSE @,
                                  !.n_frames = @ + inp.elens[1]]
            /\ pc' = "done"
    /\ UNCHANGED << cfg, net, ref, inp, b, t, hyps, outs, g, aux >>

\* ------------------------------------------------------------ inputs
Durs == { [v \in Vocab |-> 1], [v \in Vocab |-> v % 2] }

RefSeqs == { << v >> : v \in Vocab } \cup { << v, w >> : v \in Vocab, w \in Vocab }

BeamInput(bs, elens, eouts, has_refs, refs, has_spk, spk, nbest, excl, params) ==
    [fn |-> "beam_search", bs |-> bs, elens |-> elens, eouts |-> eouts,
     has_refs |-> has_refs, refs_id |-> refs,
     has_speakers |-> has_spk, speakers |-> spk,
     nbest |-> nbest, exclude_eos |-> excl, params |-> params,
     first |-> FALSE, state_carry_over |-> FALSE]

\* beam_search_chunk_sync(eouts_chunk, params, ..., hyps_segment, state_carry_over):
\* `first` says that hyps_segment is None; elens[1] is eouts_chunk.size(1).
ChunkInput(chunk_len, eouts, first, carry, params) ==
    [fn |-> "beam_search_chunk_sync", bs |-> 1, elens |-> << chunk_len >>, eouts |-> << eouts >>,
     has_refs |-> FALSE, refs_id |-> << << >> >>,
     has_speakers |-> FALSE, speakers |-> << 0 >>,
     nbest |-> 1, exclude_eos |-> FALSE, params |-> params,
     first |-> first, state_carry_over |-> carry]

\* One utterance, no references: every nbest around the legal range.
PlainInputs ==
    { BeamInput(1, << n >>, << 0 >>, FALSE, << << >> >>, FALSE, << 0 >>, nb, FALSE,
                Params(FALSE, bw, mlr, lp, ln, FALSE, thr, FALSE)) :
        n \in 1 .. MaxElen, nb \in 0 .. (MaxBeam + 1), bw \in 1 .. MaxBeam,
        mlr \in {0, 2}, lp \in {0, 1}, ln \in BOOLEAN, thr \in {1, 3} }

\* Teacher forcing.
OracleInputs ==
    { BeamInput(1, << n >>, << 0 >>, TRUE, << r >>, FALSE, << 0 >>, nb, FALSE,
                Params(TRUE, bw, 0, 0, FALSE, FALSE, thr, FALSE)) :
        n \in {MaxElen}, nb \in {1}, bw \in 1 .. MaxBeam, r \in RefSeqs, thr \in {1, 3} }

\* No call has been made yet.
NoInput == [BeamInput(0, << >>, << >>, FALSE, << >>, FALSE, << >>, 0, FALSE,
                      Params(FALSE, 0, 0, 0, FALSE, FALSE, 0, FALSE)) EXCEPT !.fn = "none"]

\* A decoder after construction, its network drawn from the durations D and
\* the dependences R1 of the best token on the fed token, its direction from
\* Bwd.
InitNet(D, R1, Bwd) ==
    /\ cfg \in [eos : Vocab, replace_sos : {FALSE}, bwd : Bwd]
    /\ net \in [r0 : Vocab, r1 : R1, dur : D]
    /\ dec = FreshDecoder
    /\ inp = NoInput
    /\ pc = "idle"
    /\ b = 0
    /\ t = 0
    /\ hyps = << >>
    /\ end_hyps = << >>
    /\ outs = NoOuts
    /\ g = NoGreedy
    /\ ref = NoRef
    /\ aux = NoAux

InitWith(D) == InitNet(D, 0 .. 1, {FALSE})

Init == InitWith(Durs)

\* Streaming: chunks of one utterance, fed one call after the other.
ChunkInputs ==
    { ChunkInput(n, 0, first, FALSE, Params(FALSE, bw, 0, lp, TRUE, FALSE, thr, FALSE)) :
        n \in 1 .. MaxElen, first \in BOOLEAN, bw \in 1 .. MaxBeam,
        lp \in {0, 1}, thr \in {1, 3} }

\* A caller that passes an nbest outside the legal range.
BadInputs ==
    { BeamInput(1, << 1 >>, << 0 >>, FALSE, << << >> >>, TRUE, << 1 >>, nb, FALSE,
                Params(FALSE, bw, 0, 0, FALSE, FALSE, 1, TRUE)) :
        nb \in {0, MaxBeam + 1}, bw \in {MaxBeam} }

\* Greedy and beam search of width 1 on the same utterance.
WidthOneInputs ==
    { BeamInput(1, << n >>, << 0 >>, FALSE, << << >> >>, FALSE, << 0 >>, 1, excl,
                Params(FALSE, 1, mlr, 0, ln, FALSE, thr, FALSE)) :
        n \in 1 .. MaxElen, excl \in BOOLEAN, mlr \in {0, 2}, ln \in BOOLEAN,
        thr \in {0, 1, 3} }

\* Two utterances with speakers.
BatchInputs ==
    { BeamInput(2, << 1, MaxElen >>, << 0, 1 >>, FALSE, << << >>, << >> >>, TRUE, spk, 1, FALSE,
                Params(FALSE, bw, 0, 0, TRUE, FALSE, 1, carry)) :
        spk \in { << 1, 1 >>, << 1, 2 >> }, bw \in {1, MaxBeam}, carry \in BOOLEAN }

Call == pc = "idle" /\ \E i \in PlainInputs \cup OracleInputs \cup BatchInputs : BeamSearchCall(i)

\* The next call on the same decoder instance.
CallAgain ==
    /\ pc = "done"
    /\ inp.fn = "beam_search"
    /\ \E i \in BadInputs : BeamSearchCall(i)

CallChunk ==
    \E i \in ChunkInputs :
        /\ \/ pc = "idle" /\ i.first
           \/ pc = "done" /\ inp.fn = "beam_search_chunk_sync" /\ ~i.first
              /\ i.params = inp.params /\ i.eouts = inp.eouts
        /\ (IF i.first THEN 0 ELSE dec.n_frames) + i.elens[1] <= MaxElen
        /\ ChunkCall(i)
        /\ ref' = ref

Next ==
    \/ Call \/ CallAgain \/ UttInit \/ Step \/ Finish \/ Return
    \/ CallChunk \/ ChunkStep \/ ChunkReturn

Spec == Init /\ [][Next]_vars

\* Greedy decoding, then beam search of width 1 with the same arguments.
CallGreedy == pc = "idle" /\ \E i \in WidthOneInputs : GreedyCall([i EXCEPT !.fn = "greedy"])

ThenBeamSearch ==
    /\ pc = "greedy_done"
    /\ BeamSearchCall([inp EXCEPT !.fn = "beam_search"])

NextWidthOne ==
    \/ CallGreedy \/ GreedyStep \/ GreedyReturn
    \/ ThenBeamSearch \/ UttInit \/ Step \/ Finish \/ Return

SpecWidthOne == Init /\ [][NextWidthOne]_vars

\* Greedy decoding of batches of one and two utterances, with and without
\* teacher forcing.
GreedyInput(bs, elens, eouts, oracle, refs, excl) ==
    [BeamInput(bs, elens, eouts, oracle, refs, FALSE, [u \in 1 .. bs |-> 0], 1, excl,
               Params(oracle, 1, 0, 0, FALSE, FALSE, 1, FALSE)) EXCEPT !.fn = "greedy"]

ShortRefs == { << v >> : v \in Vocab } \cup { << v, v >> : v \in Vocab }

GreedyInputs ==
    { GreedyInput(1, << n >>, << 0 >>, FALSE, << << >> >>, excl) :
        n \in 1 .. MaxElen, excl \in BOOLEAN }
    \cup { GreedyInput(2, << n, m >>, << 0, e >>, FALSE, << << >>, << >> >>, excl) :
        n \in 1 .. MaxElen, m \in 1 .. MaxElen, e \in 0 .. 1, excl \in BOOLEAN }
    \cup { GreedyInput(1, << MaxElen >>, << 0 >>, TRUE, << r >>, excl) :
        r \in RefSeqs, excl \in BOOLEAN }
    \cup { GreedyInput(2, << 1, MaxElen >>, << 0, 1 >>, TRUE, << r, q >>, excl) :
        r \in ShortRefs, q \in ShortRefs, excl \in BOOLEAN }

CallGreedyBatch == \E i \in GreedyInputs : GreedyCall(i)

NextGreedy == CallGreedyBatch \/ GreedyStep \/ GreedyReturn

InitGreedy == InitNet(Durs, Vocab, BOOLEAN)

SpecGreedy == InitGreedy /\ [][NextGreedy]_vars


\* An utterance fed to beam_search_chunk_sync as one chunk, then again as two
\* consecutive chunks, the second call given the hyps_segment of the first.
StreamParams == { Params(FALSE, bw, 0, lp, TRUE, FALSE, thr, FALSE) :
                    bw \in 1 .. MaxBeam, lp \in {0, 1}, thr \in {1, 3} }

WholeUtterance ==
    /\ pc = "idle"
    /\ \E n \in 2 .. (MaxElen + 1), p \in StreamParams : ChunkCall(ChunkInput(n, 0, TRUE, FALSE, p))
    /\ ref' = ref

FirstChunk ==
    /\ pc = "done"
    /\ ~ref.set
    /\ ref' = [set |-> TRUE, xlen |-> inp.elens[1], end_hyps |-> end_hyps, hyps |-> hyps,
               drift |-> aux.drift, first_end |-> << >>]
    /\ \E n \in 1 .. (inp.elens[1] - 1) : ChunkCall(ChunkInput(n, 0, TRUE, FALSE, inp.params))

SecondChunk ==
    /\ pc = "done"
    /\ ref.set
    /\ inp.first
    /\ ref' = [ref EXCEPT !.first_end = end_hyps]
    /\ ChunkCall(ChunkInput(ref.xlen - dec.n_frames, 0, FALSE, FALSE, inp.params))

NextStream == WholeUtterance \/ FirstChunk \/ SecondChunk \/ ChunkStep \/ ChunkReturn

\* Every token either moves the trigger point on by one frame or leaves it.
StreamDurs == [Vocab -> 0 .. 1]

InitStream == InitWith(StreamDurs)

SpecStream == InitStream /\ [][NextStream]_vars

\* ------------------------------------------------------------ properties
ValidNbest == 1 <= inp.nbest /\ inp.nbest <= inp.params.recog_beam_width

EndsWithEos(h) == Len(h.hyp) > 1 /\ Last(h.hyp) = cfg.eos

\* floor(elens[u] * max_len_ratio) + 1, written out.
MaxSteps(u) == (inp.elens[u] * inp.params.recog_max_len_ratio) + 1

InBeamSearch == inp.fn = "beam_search" /\ pc \in {"step", "global", "return", "done"}
InChunkSync == inp.fn = "beam_search_chunk_sync" /\ pc \in {"chunk_step", "chunk_return", "done"}

\* C1: a call of beam_search whose nbest is below 1 or above recog_beam_width
\* fails; no utterance has been decoded, nothing has been output, and the
\* persisted decoder state (prev_spk, dstates_final, lmstate_final) is what it
\* was when the call was made.
C1_BadNbestRejected ==
    (inp.fn = "beam_search" /\ ~ValidNbest)
        => /\ pc = "error"
           /\ b = 0
           /\ aux.steps = 0
           /\ outs = NoOuts
           /\ dec = aux.dec_at_call

\* A rejected call on a decoder that an earlier call has left a final state
\* in, with a speaker that differs from prev_spk.
C1_Witness ==
    /\ inp.fn = "beam_search"
    /\ inp.nbest > inp.params.recog_beam_width
    /\ pc = "error"
    /\ dec.dstates_final # NoneState
    /\ inp.has_speakers /\ inp.speakers[1] # dec.prev_spk

\* C2: in beam_search and beam_search_chunk_sync, after every decoding step
\* the live hypotheses carried to the next step are at most beam_width, and so
\* are the completed hypotheses handed to the output stage.
C2_AtMostBeamWidth ==
    (InBeamSearch \/ InChunkSync)
        => /\ Len(hyps) <= inp.params.recog_beam_width
           /\ Len(end_hyps) <= inp.params.recog_beam_width

\* A step whose candidates outnumbered beam_width and were cut to it.
C2_Witness ==
    /\ inp.fn = "beam_search"
    /\ pc = "step"
    /\ Len(aux.kids) > inp.params.recog_beam_width
    /\ Len(hyps) = inp.params.recog_beam_width

\* C3: every hypothesis created by a step of beam_search or
\* beam_search_chunk_sync has its parent's token sequence followed by exactly
\* one token (a hypothesis of chunk-synchronous search that has no trigger
\* point in the chunk is carried over with its sequence as it is); every
\* token sequence starts with the start/end symbol; and the parents a step
\* leaves in the live set have the token sequences they had before the step.
C3_ExtendByOne ==
    ((InBeamSearch \/ InChunkSync) /\ aux.steps > 0)
        => /\ \A j \in 1 .. Len(aux.kids) : \E i \in 1 .. Len(aux.parents) :
                \/ \E v \in Vocab : aux.kids[j].hyp = Append(aux.parents[i].hyp, v)
                \/ /\ inp.fn = "beam_search_chunk_sync"
                   /\ aux.kids[j].hyp = aux.parents[i].hyp
           /\ \A j \in 1 .. Len(aux.kids) : aux.kids[j].hyp[1] = cfg.eos
           /\ \A j \in 1 .. Len(hyps) : hyps[j].hyp[1] = cfg.eos
           /\ \A j \in 1 .. Len(end_hyps) : end_hyps[j].hyp[1] = cfg.eos
           /\ \A j \in 1 .. Len(hyps) :
                \/ \E i \in 1 .. Len(aux.kids) : hyps[j].hyp = aux.kids[i].hyp
                \/ j <= Len(aux.parents) /\ hyps[j].hyp = aux.parents[j].hyp

\* A step of beam_search that extended two parents into several children.
C3_Witness ==
    /\ inp.fn = "beam_search"
    /\ pc = "step"
    /\ Len(aux.parents) >= 2
    /\ Len(aux.kids) >= 3
    /\ \E j \in 1 .. Len(aux.kids) : Len(aux.kids[j].hyp) >= 3

\* C4 as stated: in beam_search, in every mode (oracle included), no live
\* hypothesis ends with an emitted end symbol after a step, and none that does
\* is extended.
C4_NoLiveEosAnyMode ==
    (InBeamSearch /\ aux.steps > 0)
        => /\ \A j \in 1 .. Len(hyps) : ~EndsWithEos(hyps[j])
           /\ \A j \in 1 .. Len(aux.parents) : ~EndsWithEos(aux.parents[j])

\* C4 amended: outside oracle mode no live hypothesis ends with an emitted end
\* symbol after a step and none that does is extended; in oracle mode
\* hypotheses are completed at step len(refs_id[b]) only.
C4_NoLiveEosNonOracle ==
    (InBeamSearch /\ aux.steps > 0)
        => IF inp.params.recog_oracle
           THEN Len(aux.completed) > 0 => t = Len(inp.refs_id[b])
           ELSE /\ \A j \in 1 .. Len(hyps) : ~EndsWithEos(hyps[j])
                /\ \A j \in 1 .. Len(aux.parents) : ~EndsWithEos(aux.parents[j])

\* A step outside oracle mode that completed a hypothesis and kept another live.
C4_Witness ==
    /\ inp.fn = "beam_search"
    /\ ~inp.params.recog_oracle
    /\ pc = "step"
    /\ Len(aux.completed) > 0
    /\ \E j \in 1 .. Len(aux.completed) : EndsWithEos(aux.completed[j])
    /\ Len(hyps) > 0

\* C5: beam_search with beam_width = 1, nbest = 1, no LM, no CTC and no
\* penalty, called with the arguments of a greedy call, returns, and its token
\* sequence and its alignment are those of greedy.
C5_WidthOneEqualsGreedy ==
    (inp.fn = "beam_search" /\ pc \in {"done", "error"})
        => /\ pc = "done"
           /\ outs.nbest_hyps_idx[1][1] = g.hyps[1]
           /\ outs.aws[1] = g.aws[1]

\* C6: non-oracle beam_search makes at most floor(elens[b] * max_len_ratio) + 1
\* steps for utterance b; every returned sequence (before the end symbol is
\* stripped) has at most that many tokens; and the 1-best sequence ends in the
\* end symbol or has exactly that many.
C6_BoundedLength ==
    (inp.fn = "beam_search" /\ ~inp.params.recog_oracle /\ b >= 1
     /\ pc \in {"step", "global", "return", "error"})
        => /\ aux.steps <= MaxSteps(b)
           /\ t < MaxSteps(b)
           /\ \A u \in 1 .. Len(outs.nbest_hyps_idx) :
                LET nbest == outs.nbest_hyps_idx[u]
                IN  /\ \A k \in 1 .. Len(nbest) : Len(nbest[k]) <= MaxSteps(u)
                    /\ \/ Len(nbest[1]) = MaxSteps(u)
                       \/ Len(nbest[1]) > 0 /\ Last(nbest[1]) = cfg.eos

\* A call that returns a 1-best of the maximum length that does not end in
\* the end symbol, after as many steps as are allowed.
C6_Witness ==
    /\ inp.fn = "beam_search"
    /\ ~inp.params.recog_oracle
    /\ pc = "return"
    /\ aux.steps = MaxSteps(b)
    /\ Len(outs.nbest_hyps_idx[b][1]) = MaxSteps(b)
    /\ Last(outs.nbest_hyps_idx[b][1]) # cfg.eos

\* C7: whenever 1 <= nbest <= beam_width, beam_search does not fail for want
\* of hypotheses and returns exactly nbest hypotheses and nbest scores for
\* every utterance (leaving aside the calls whose live set became empty and
\* the calls whose eos-threshold test raised).
C7_ExactlyNbest ==
    (inp.fn = "beam_search" /\ ValidNbest /\ ~aux.emptied
     /\ aux.raised \notin {"empty", "none", "max"})
        => /\ pc # "error"
           /\ pc \in {"return", "done"} =>
                \A u \in 1 .. inp.bs :
                    /\ Len(outs.nbest_hyps_idx[u]) = inp.nbest
                    /\ Len(outs.scores[u]) = inp.nbest

\* C8: beam_search does not fail after a step in which every candidate of
\* every live hypothesis was rejected; the call returns with a completed set
\* that is not empty.
C8_EmptyBeamSurvives ==
    (inp.fn = "beam_search" /\ aux.emptied)
        => /\ pc # "error"
           /\ pc = "done" => Len(end_hyps) > 0

\* C9: the eos-threshold test of beam_search and beam_search_chunk_sync never
\* fails on the maximum of an empty score range.
C9_EosThresholdNeverRaises == aux.raised # "max"

\* The best token sequence of a run: the best completed hypothesis, or the
\* best live one when none completed.
BestSeq(ends, live) ==
    IF Len(ends) > 0 THEN ends[1].hyp
    ELSE IF Len(live) > 0 THEN SortedByScore(live)[1].hyp ELSE << >>

\* C10: an utterance fed as two consecutive chunks, the second call given the
\* hyps_segment the first returned, has the same best token sequence as the
\* utterance fed as one chunk, when no trigger point lies before the chunk
\* that is being decoded.
C10_TwoChunksEqualWhole ==
    (pc = "done" /\ ref.set /\ ~inp.first /\ ~aux.drift /\ ~ref.drift)
        => BestSeq(ref.end_hyps, ref.hyps)
             = BestSeq(SortedByScore(ref.first_end \o end_hyps), hyps)

\* ------------------------------------------- the fused score of a candidate
\* Lines 1028-1034 and 1073-1076: total_score of a candidate whose accumulated
\* score (attention score of the parent plus the token's) is s.
FusedScore(s, beam) ==
    LengthNorm(LengthPenalty(Rat(s, 1), beam), beam, inp.params.recog_length_norm)

\* A parent of n tokens after <sos>.
ParentOfLength(n) ==
    [InitialHyp(ZeroState, NoneState) EXCEPT !.hyp = [k \in 1 .. (n + 1) |-> cfg.eos]]

MaxPenalty == 2
MaxScore == 4

\* Two parents of different lengths are scored with the same accumulated score
\* under one length penalty, then under a larger one.
PenaltyCall ==
    /\ pc = "idle"
    /\ \E n \in 0 .. MaxElen, m \in 1 .. (MaxElen + 1), s \in 1 .. MaxScore,
          lp \in 0 .. (MaxPenalty - 1), ln \in BOOLEAN :
          /\ n < m
          /\ inp' = [BeamInput(1, << MaxElen >>, << 0 >>, FALSE, << << >> >>, FALSE, << 0 >>,
                               1, FALSE, Params(FALSE, MaxBeam, 0, lp, ln, FALSE, 1, FALSE))
                        EXCEPT !.fn = "fused_score"]
          /\ hyps' = << ParentOfLength(n), ParentOfLength(m) >>
          /\ t' = 0 - s
    /\ pc' = "score"
    /\ outs' = NoOuts
    /\ UNCHANGED << cfg, net, ref, dec, b, end_hyps, g, aux >>

PenaltyScore ==
    /\ pc = "score"
    /\ outs' = [outs EXCEPT !.scores =
                  Append(@, << FusedScore(t, hyps[1]), FusedScore(t, hyps[2]) >>)]
    /\ IF Len(outs.scores) = 0
       THEN /\ \E lp \in 1 .. MaxPenalty :
                 /\ lp > inp.params.recog_length_penalty
                 /\ inp' = [inp EXCEPT !.params.recog_length_penalty = lp]
            /\ pc' = "score"
       ELSE /\ inp' = inp
            /\ pc' = "scored"
    /\ UNCHANGED << cfg, net, ref, dec, b, t, hyps, end_hyps, g, aux >>

NextPenalty == PenaltyCall \/ PenaltyScore

SpecPenalty == Init /\ [][NextPenalty]_vars

\* x - y of two rationals.
RatSub(x, y) == Rat(x.n * y.d - y.n * x.d, x.d * y.d)

\* The advantage of the longer candidate over the shorter in scoring k.
Advantage(k) == RatSub(outs.scores[k][2], outs.scores[k][1])

\* C13: with the additive length penalty, of two candidates that differ only
\* in the length of their parents, the fused-score advantage of the longer
\* over the shorter strictly increases when recog_length_penalty is increased,
\* with length normalisation and without.
C13_LongerGainsWithPenalty ==
    (inp.fn = "fused_score" /\ pc = "scored")
        => RatLess(Advantage(1), Advantage(2))

\* ------------------------------------------------- the coverage penalty
\* The attention mass of one step: 1 on its frame, nothing when all zero.
Mass(frame) == IF frame >= 1 THEN 1 ELSE 0

\* Sum(f, n): f[1] + ... + f[n].
RECURSIVE SumTo(_, _)
SumTo(f, n) == IF n = 0 THEN 0 ELSE f[n] + SumTo(f, n - 1)

\* Lines 1038-1051, gnmt_decoding off, one head.  aw is the attention of the
\* step for ALL the live hypotheses, [n_hyps, T, n_heads], while the entries
\* of beam['aws'] are the rows aw[j:j+1] of earlier steps, [1, T, n_heads]:
\* torch.stack(beam['aws'][1:] + [aw], dim=-1) raises when the hypothesis has
\* an earlier step and more than one hypothesis is live.  Otherwise it puts
\* the steps last, so aw_mat[:, :, :, 0] is the attention of the first step
\* (that of the whole batch when the step is the first).
CoveragePenalty(beam, aw, cp_threshold) ==
    LET earlier == Tail(beam.aws)
        first == IF earlier = << >> THEN SumTo([k \in 1 .. Len(aw) |-> Mass(aw[k])], Len(aw))
                 ELSE Mass(earlier[1])
    IN  IF earlier # << >> /\ Len(aw) # 1
        THEN [raised |-> TRUE, cp |-> 0]
        ELSE [raised |-> FALSE,
              cp |-> IF cp_threshold = 0 THEN first
                     ELSE IF first > cp_threshold THEN first ELSE 0]

\* The first of n_hyps live hypotheses, with the attention history `frames`,
\* takes a step in which the hypotheses attend the frames aw, with the
\* coverage penalty on.  The first step of a search has one hypothesis.
CoverageCall ==
    /\ pc = "idle"
    /\ \E n \in 0 .. MaxElen, w \in 1 .. MaxPenalty, th \in 0 .. 1, n_hyps \in 1 .. MaxBeam :
        \E frames \in [1 .. n -> 0 .. (MaxElen + 1)], aw \in [1 .. n_hyps -> 0 .. (MaxElen + 1)] :
          /\ n = 0 => n_hyps = 1
          /\ inp' = [fn |-> "coverage", cp_weight |-> w, cp_threshold |-> th, aw |-> aw]
          /\ hyps' = << [ParentOfLength(n) EXCEPT !.aws = << -1 >> \o frames] >>
    /\ pc' = "cover"
    /\ outs' = NoOuts
    /\ UNCHANGED << cfg, net, ref, dec, b, t, end_hyps, g, aux >>

\* Lines 1038-1052: total_scores_topk += cp * cp_weight, or the RuntimeError
\* of torch.stack.
CoverageScore ==
    /\ pc = "cover"
    /\ LET r == CoveragePenalty(hyps[1], inp.aw, inp.cp_threshold)
       IN  IF r.raised
           THEN /\ pc' = "error"
                /\ UNCHANGED outs
           ELSE /\ outs' = [outs EXCEPT !.scores = << r.cp * inp.cp_weight >>]
                /\ pc' = "covered"
    /\ UNCHANGED << cfg, net, ref, dec, inp, b, t, hyps, end_hyps, g, aux >>

NextCoverage == CoverageCall \/ CoverageScore

InitCoverage == InitNet({ [v \in Vocab |-> 1] }, {0}, {FALSE}) /\ net.r0 = 0 /\ cfg.eos = 0

SpecCoverage == InitCoverage /\ [][NextCoverage]_vars

\* Weight 1 on a single frame at each step of the hypothesis, no frame
\* attended twice.
PeakedNoRepeat ==
    LET aw_mat == Append(Tail(hyps[1].aws), inp.aw[1])
    IN  /\ \A k \in 1 .. Len(aw_mat) : aw_mat[k] >= 1
        /\ \A j \in 1 .. Len(aw_mat), k \in 1 .. Len(aw_mat) : j # k => aw_mat[j] # aw_mat[k]

CoverageScored == inp.fn = "coverage" /\ pc \in {"covered", "error"}

\* C14: with cp_weight > 0, gnmt_decoding off and cp_threshold = 0, a
\* hypothesis whose attention puts weight 1 on a single, never repeated frame
\* at each step receives a coverage contribution of zero.
C14_PeakedCoverageIsZero ==
    (CoverageScored /\ inp.cp_threshold = 0 /\ PeakedNoRepeat)
        => /\ pc = "covered"
           /\ outs.scores[1] = 0

\* What holds: the step raises exactly when the hypothesis has an earlier
\* step and is not the only one live; otherwise such a hypothesis receives
\* the contribution cp_weight (the attention mass of its first step, 1,
\* times the weight), whatever its length: a positive constant, not zero.
PeakedCoverageIsWeightOrRaises ==
    (CoverageScored /\ inp.cp_threshold = 0 /\ PeakedNoRepeat)
        => /\ pc = "error" <=> (Len(hyps[1].aws) > 1 /\ Len(inp.aw) > 1)
           /\ pc = "covered" => (outs.scores[1] = inp.cp_weight /\ outs.scores[1] > 0)

\* floor(L * max_len_ratio) + 1 for the padded length L of the batch, written out.
MaxGreedySteps ==
    LET L == CHOOSE m \in { inp.elens[u] : u \in 1 .. inp.bs } :
                 \A u \in 1 .. inp.bs : inp.elens[u] <= m
    IN  (L * inp.params.recog_max_len_ratio) + 1

AllEmittedEos == \A u \in 1 .. inp.bs : g.eos_flags[u]

\* C11: non-oracle greedy makes at most floor(L * max_len_ratio) + 1 steps for
\* a batch of padded length L; it goes on while an utterance has not emitted
\* the end symbol and steps are left, and when it stops before the bound every
\* utterance of the batch has emitted the end symbol.
C11_GreedyBoundedSteps ==
    (inp.fn = "greedy" /\ ~inp.params.recog_oracle
     /\ pc \in {"greedy_step", "greedy_return", "greedy_done"})
        => /\ aux.steps <= MaxGreedySteps
           /\ Len(g.hyps_batch) = aux.steps
           /\ (pc = "greedy_step" /\ aux.steps > 0)
                => (~AllEmittedEos /\ aux.steps < MaxGreedySteps)
           /\ (pc # "greedy_step" /\ aux.steps < MaxGreedySteps) => AllEmittedEos
           /\ pc # "greedy_step" => (AllEmittedEos \/ aux.steps = MaxGreedySteps)

\* A batch of two that stopped before the bound, one utterance having emitted
\* the end symbol a step before the other.
C11_Witness ==
    /\ inp.fn = "greedy" /\ ~inp.params.recog_oracle /\ inp.bs = 2
    /\ pc = "greedy_return"
    /\ aux.steps < MaxGreedySteps
    /\ aux.steps = 2
    /\ g.ylens[1] # g.ylens[2]

\* The tokens utterance u emitted over all the steps of the batch.
Emitted(u) == [k \in 1 .. Len(g.hyps_batch) |-> g.hyps_batch[k][u]]

\* The position of the first end symbol of seq, 0 when it has none.
FirstEos(seq) ==
    IF \E k \in 1 .. Len(seq) : seq[k] = cfg.eos
    THEN CHOOSE k \in 1 .. Len(seq) :
            seq[k] = cfg.eos /\ \A j \in 1 .. (k - 1) : seq[j] # cfg.eos
    ELSE 0

UpToFirstEos(seq) == IF FirstEos(seq) = 0 THEN seq ELSE SubSeq(seq, 1, FirstEos(seq))

EosCount(seq) == Cardinality({ k \in 1 .. Len(seq) : seq[k] = cfg.eos })

\* C12: for every utterance of a greedy batch the returned sequence is the
\* utterance's emitted tokens up to and including its first end symbol, or all
\* of them when it emitted none (in reverse order for the backward decoder,
\* and without the end symbol when exclude_eos is set), however many steps
\* the batch ran; it holds at most one end symbol, the last one decoded.
C12_GreedyUpToFirstEos ==
    (inp.fn = "greedy" /\ pc = "greedy_done")
        => \A u \in 1 .. inp.bs :
             LET cut == UpToFirstEos(Emitted(u))
                 kept == IF inp.exclude_eos /\ FirstEos(Emitted(u)) # 0 THEN Front(cut) ELSE cut
             IN  /\ g.hyps[u] = (IF cfg.bwd THEN Reverse(kept) ELSE kept)
                 /\ EosCount(g.hyps[u]) <= 1
                 /\ EosCount(g.hyps[u]) = 1 =>
                        g.hyps[u][IF cfg.bwd THEN 1 ELSE Len(g.hyps[u])] = cfg.eos

\* A batch of two whose first utterance emitted the end symbol at once and
\* then emitted other tokens while the second went on.
C12_Witness ==
    /\ inp.fn = "greedy" /\ pc = "greedy_done" /\ inp.bs = 2
    /\ ~inp.exclude_eos
    /\ Len(g.hyps_batch) >= 2
    /\ g.hyps[1] = << cfg.eos >>
    /\ Emitted(1)[2] # cfg.eos
    /\ Len(g.hyps[2]) >= 2

\* ------------------------------------------------ what the calls return
\* greedy and beam_search, forward and backward decoder, with and without
\* exclude_eos, with and without teacher forcing.
OutputBeamInputs ==
    { BeamInput(1, << n >>, << 0 >>, FALSE, << << >> >>, FALSE, << 0 >>, nb, excl,
                Params(FALSE, bw, 0, 0, FALSE, FALSE, thr, FALSE)) :
        n \in 1 .. MaxElen, nb \in 1 .. MaxBeam, bw \in 1 .. MaxBeam,
        thr \in {1, 3}, excl \in BOOLEAN }
    \cup { BeamInput(1, << MaxElen >>, << 0 >>, TRUE, << r >>, FALSE, << 0 >>, 1, excl,
                Params(TRUE, bw, 0, 0, FALSE, FALSE, 3, FALSE)) :
        bw \in 1 .. MaxBeam, r \in RefSeqs, excl \in BOOLEAN }

OutputGreedyInputs ==
    { GreedyInput(1, << n >>, << 0 >>, FALSE, << << >> >>, excl) :
        n \in 1 .. MaxElen, excl \in BOOLEAN }
    \cup { GreedyInput(2, << 1, MaxElen >>, << 0, 1 >>, FALSE, << << >>, << >> >>, excl) :
        excl \in BOOLEAN }
    \cup { GreedyInput(1, << MaxElen >>, << 0 >>, TRUE, << r >>, excl) :
        r \in RefSeqs, excl \in BOOLEAN }

CallOutputBeam ==
    /\ pc = "idle"
    /\ \E i \in OutputBeamInputs :
         /\ i.nbest <= i.params.recog_beam_width
         /\ BeamSearchCall(i)

CallOutputGreedy == \E i \in OutputGreedyInputs : GreedyCall(i)

NextOutput ==
    \/ CallOutputBeam \/ UttInit \/ Step \/ Finish \/ Return
    \/ CallOutputGreedy \/ GreedyStep \/ GreedyReturn

InitOutput == InitNet(Durs, 0 .. 1, BOOLEAN)

SpecOutput == InitOutput /\ [][NextOutput]_vars

HasEos(seq) == \E k \in 1 .. Len(seq) : seq[k] = cfg.eos

\* The tokens of a hypothesis in the order they are returned.
Returned(h) == IF cfg.bwd THEN Reverse(Tail(h.hyp)) ELSE Tail(h.hyp)

\* What exclude_eos has to make of the returned tokens: the end symbol, last
\* decoded, taken off.
WithoutLastEos(h) ==
    IF Last(h.hyp) = cfg.eos
    THEN (IF cfg.bwd THEN Reverse(Front(Tail(h.hyp))) ELSE Front(Tail(h.hyp)))
    ELSE Returned(h)

GreedyExcluded ==
    \A u \in 1 .. inp.bs :
        /\ ~HasEos(g.hyps[u])
        /\ Len(g.hyps[u]) = (IF HasEos(Emitted(u)) THEN FirstEos(Emitted(u)) - 1
                              ELSE Len(Emitted(u)))

BeamExcluded ==
    \A k \in 1 .. inp.nbest :
        /\ ~HasEos(outs.nbest_hyps_idx[1][k])
        /\ outs.nbest_hyps_idx[1][k] = WithoutLastEos(end_hyps[k])

\* C15 as stated: with exclude_eos no sequence returned by greedy or by
\* beam_search, in any mode, contains the end symbol; one that emitted it has
\* it removed, one that did not is returned unchanged.
C15_NoEosReturnedAnyMode ==
    /\ (inp.fn = "greedy" /\ inp.exclude_eos /\ pc = "greedy_done") => GreedyExcluded
    /\ (inp.fn = "beam_search" /\ inp.exclude_eos /\ pc = "done") => BeamExcluded

\* Where the exclusion is complete: greedy in every mode and beam_search
\* outside oracle mode; in oracle mode beam_search removes an end symbol
\* emitted at the last step only.
ExclusionCompleteNonOracle ==
    /\ (inp.fn = "greedy" /\ inp.exclude_eos /\ pc = "greedy_done") => GreedyExcluded
    /\ (inp.fn = "beam_search" /\ inp.exclude_eos /\ pc = "done") =>
          IF inp.params.recog_oracle
          THEN \A k \in 1 .. inp.nbest :
                  outs.nbest_hyps_idx[1][k] = WithoutLastEos(end_hyps[k])
          ELSE BeamExcluded

\* ------------------------------------------------ speakers across utterances
MaxCalls == 2

\* One or two utterances with speakers, state carry-over on.
SpeakerInputs ==
    { BeamInput(1, << 1 >>, << 0 >>, FALSE, << << >> >>, TRUE, << s >>, 1, FALSE,
                Params(FALSE, MaxBeam, 0, 0, TRUE, FALSE, 1, TRUE)) : s \in 1 .. 2 }
    \cup { BeamInput(2, << 1, MaxElen >>, << 0, 1 >>, FALSE, << << >>, << >> >>, TRUE,
                      << s1, s2 >>, 1, FALSE,
                      Params(FALSE, MaxBeam, 0, 0, TRUE, FALSE, 1, TRUE)) :
              s1 \in 1 .. 2, s2 \in 1 .. 2 }

\* A call on a new decoder, or the next call on the same decoder.
CallSpeakers ==
    /\ \/ pc = "idle"
       \/ pc = "done" /\ aux.calls < MaxCalls
    /\ \E i \in SpeakerInputs : BeamSearchCall(i)

NextSpeakers == CallSpeakers \/ UttInit \/ Step \/ Finish \/ Return

InitSpeakers == InitWith(Durs)

SpecSpeakers == InitSpeakers /\ [][NextSpeakers]_vars

\* Utterance b is about to be decoded: its initial hypothesis is in place.
AtStart == inp.fn = "beam_search" /\ pc = "step" /\ t = 0 /\ aux.steps = 0

\* The speaker of the utterance decoded immediately before utterance b: the
\* one before it in the batch, or the last one of the previous call.
SpeakerBefore ==
    IF b > 1 THEN inp.speakers[b - 1]
    ELSE IF aux.calls > 1 THEN aux.dec_at_call.prev_spk ELSE 0

\* C16: with speakers and state carry-over, an utterance of the speaker of
\* the utterance decoded immediately before it starts from the final state of
\* that utterance's best hypothesis; an utterance of another speaker starts
\* from the zero state.
C16_CarryFromPreceding ==
    (AtStart /\ inp.has_speakers /\ inp.params.recog_asr_state_carry_over) =>
        hyps[1].dstates = (IF inp.speakers[b] = SpeakerBefore
                           THEN aux.prev_best ELSE ZeroState)

\* What holds: the first utterance of a call is carried over from the last
\* utterance of the previous call, and a change of speaker resets the state.
CarryAcrossCalls ==
    (AtStart /\ inp.has_speakers /\ inp.params.recog_asr_state_carry_over
       /\ (b = 1 \/ inp.speakers[b] # SpeakerBefore)) =>
        hyps[1].dstates = (IF inp.speakers[b] = SpeakerBefore
                           THEN aux.prev_best ELSE ZeroState)

\* Within a call every carried-over utterance starts from the state stored
\* by the previous call, or from None on a new decoder.
CarryIsStaleInBatch ==
    (AtStart /\ inp.has_speakers /\ inp.params.recog_asr_state_carry_over
       /\ b > 1 /\ inp.speakers[b] = SpeakerBefore) =>
        hyps[1].dstates = aux.dec_at_call.dstates_final

\* ------------------------------------------------ chunk_sync: what is stored
ChunkDone == inp.fn = "beam_search_chunk_sync" /\ pc = "done"

\* k is a highest-scoring hypothesis of ends.
IsBest(ends, k) == \A j \in 1 .. Len(ends) : ~RatLess(ends[k].score, ends[j].score)

\* C17: a beam_search_chunk_sync call in which no hypothesis completes leaves
\* dstates_final and lmstate_final as they were; a call in which at least one
\* completes sets them to the state of the highest-scoring hypothesis
\* completed in that call.
C17_StateOfBestCompleted ==
    ChunkDone =>
        IF end_hyps = << >>
        THEN /\ dec.dstates_final = aux.dec_at_call.dstates_final
             /\ dec.lmstate_final = aux.dec_at_call.lmstate_final
        ELSE \E k \in 1 .. Len(end_hyps) :
                /\ IsBest(end_hyps, k)
                /\ dec.dstates_final = end_hyps[k].dstates
                /\ dec.lmstate_final = end_hyps[k].lmstate

\* A later chunk in which nothing completes, after a chunk that stored a
\* state.
C17_Witness ==
    /\ ChunkDone
    /\ end_hyps = << >>
    /\ aux.steps > 0
    /\ aux.dec_at_call.dstates_final # NoneState
    /\ dec.dstates_final = aux.dec_at_call.dstates_final

\* A chunk in which two hypotheses complete with different scores.
TwoCompleted ==
    /\ ChunkDone
    /\ Len(end_hyps) >= 2
    /\ RatLess(end_hyps[2].score, end_hyps[1].score)

\* ------------------------------------------------ chunk_sync: no_trigger
\* Attention that moves on by one or two encoder frames per token.
LongDurs == { [v \in Vocab |-> 2], [v \in Vocab |-> 1 + (v % 2)] }

InitTrigger == InitNet(LongDurs, 0 .. 1, {FALSE})

NextTrigger == CallChunk \/ ChunkStep \/ ChunkReturn

SpecTrigger == InitTrigger /\ [][NextTrigger]_vars

\* Between two steps of a chunk: the live hypotheses are the outcome of the
\* step before, and a hypothesis whose attention summed to zero in it has
\* the zero frame as its last alignment.
BetweenChunkSteps == InChunkSync /\ pc = "chunk_step" /\ t > 0

Idle(h) == Last(h.aws) = 0

\* A step was executed although no parent had found a trigger point in the
\* step before.
StepAfterAllIdle ==
    /\ InChunkSync
    /\ aux.steps >= 2
    /\ \A j \in 1 .. Len(aux.parents) : Idle(aux.parents[j])

\* C18: a hypothesis whose attention weights sum to zero at a step is flagged
\* no_trigger, and once every live hypothesis is flagged no further decoding
\* step is executed for the chunk.
C18_NoTriggerHalts ==
    /\ BetweenChunkSteps => \A j \in 1 .. Len(hyps) : Idle(hyps[j]) => hyps[j].no_trigger
    /\ ~StepAfterAllIdle

\* The flag is never set: line 1252 never breaks the loop.
NoTriggerNeverSet ==
    InChunkSync => \A j \in 1 .. Len(hyps) : ~hyps[j].no_trigger

\* ------------------------------------------------ chunk_sync: what is returned
StrictPrefix(p, q) == Len(p) < Len(q) /\ SubSeq(q, 1, Len(p)) = p

\* The hypotheses that the pruning of the last executed step left alive.
Survivors ==
    SelectSeq(LocalPruning(aux.kids, inp.params.recog_beam_width),
              LAMBDA h : ~(Len(h.hyp) > 1 /\ Last(h.hyp) = cfg.eos))

\* C19: the live hypotheses a beam_search_chunk_sync call returns are those
\* that survived the pruning of the last executed step; none ends with an
\* emitted end symbol, and none is the parent of a hypothesis completed by
\* that step.
C19_ReturnedLiveSurvived ==
    (ChunkDone /\ aux.steps > 0) =>
        /\ hyps = Survivors
        /\ \A j \in 1 .. Len(hyps) : ~(Len(hyps[j].hyp) > 1 /\ Last(hyps[j].hyp) = cfg.eos)
        /\ \A j \in 1 .. Len(hyps) : \A k \in 1 .. Len(aux.completed) :
              ~StrictPrefix(hyps[j].hyp, aux.completed[k].hyp)

\* What holds: the same when the loop was not left by the break of line 1366;
\* after the break the live hypotheses returned are the parents of the step.
ReturnedLiveUnlessBreak ==
    (ChunkDone /\ aux.steps > 0) =>
        IF Len(end_hyps) >= inp.params.recog_beam_width
        THEN [j \in 1 .. Len(hyps) |-> hyps[j].hyp]
                = [j \in 1 .. Len(aux.parents) |-> aux.parents[j].hyp]
        ELSE /\ hyps = Survivors
             /\ \A j \in 1 .. Len(hyps) : \A k \in 1 .. Len(aux.completed) :
                   ~StrictPrefix(hyps[j].hyp, aux.completed[k].hyp)

\* ------------------------------------------------ the returned alignment
GreedyRowsMatch == \A u \in 1 .. inp.bs : Len(g.aws[u]) = Len(g.hyps[u])

BeamRowsMatch ==
    \A u \in 1 .. inp.bs : Len(outs.aws[u]) = Len(outs.nbest_hyps_idx[u][1])

\* C20: the alignment returned for an utterance by greedy and by beam_search
\* has exactly one attention row per token of the returned 1-best sequence,
\* whatever exclude_eos is.
C20_OneRowPerToken ==
    /\ (inp.fn = "greedy" /\ pc = "greedy_done") => GreedyRowsMatch
    /\ (inp.fn = "beam_search" /\ pc = "done") => BeamRowsMatch

\* What holds: one row per decoded token; the end symbol that exclude_eos
\* takes off the sequence keeps its row.
OneRowPerDecodedToken ==
    /\ (inp.fn = "greedy" /\ pc = "greedy_done") =>
          \A u \in 1 .. inp.bs :
              Len(g.aws[u]) = Len(g.hyps[u])
                              + (IF inp.exclude_eos /\ g.eos_flags[u] THEN 1 ELSE 0)
    /\ (inp.fn = "beam_search" /\ pc = "done") =>
          \A u \in 1 .. inp.bs :
              Len(outs.aws[u]) = Len(outs.nbest_hyps_idx[u][1])
                                 + (IF inp.exclude_eos /\ outs.eos_flags[u][1] THEN 1 ELSE 0)

\* ------------------------------------------------ the end-symbol test
\* The step of utterance b whose parents and candidates are recorded.
AfterStep == InBeamSearch /\ pc \in {"step", "global"} /\ aux.steps > 0

LastStep == aux.steps - 1

\* The condition under which an end-symbol candidate of `beam` is to be
\* dropped: the hypothesis is too short, or the end symbol's score is not
\* above eos_threshold times the best score of the other tokens.
DropCondition(beam, sv) ==
    \/ 2 * (Len(beam.hyp) - 1) < inp.elens[b] * inp.params.recog_min_len_ratio
    \/ sv[cfg.eos] <= inp.params.recog_eos_threshold * MaxScoreNoEos(sv, cfg.eos)

IsKid(beam, idx) ==
    \E k \in 1 .. Len(aux.kids) : aux.kids[k].hyp = Append(beam.hyp, idx)

\* Every candidate of the recorded step is decided by the condition.
DecidedByCondition ==
    \A j \in 1 .. Len(aux.parents) :
        LET beam == aux.parents[j]
            sv == ScoresAttn(b, PrevIdx(beam, b, LastStep))
            topk == TopK([v \in Vocab |-> beam.score_attn + sv[v]],
                         inp.params.recog_beam_width)
        IN  \A k \in 1 .. Len(topk) :
                IsKid(beam, topk[k]) <=> ~(topk[k] = cfg.eos /\ DropCondition(beam, sv))

\* C21: the end-symbol test decides every candidate: an end-symbol candidate
\* is dropped exactly when the hypothesis is too short or the end symbol's
\* score is not above the threshold, and no other candidate is dropped.
C21_EosDroppedIff ==
    /\ ~(inp.fn = "beam_search" /\ pc = "error" /\ aux.raised = "max")
    /\ AfterStep => DecidedByCondition

\* What holds: the same whenever the test does not raise.
EosDroppedIffDecided == AfterStep => DecidedByCondition

\* ------------------------------------------------ joint scoring of candidates
\* Lines 1015-1072 and 1088-1102 (beam_search), 1296-1352
\* (beam_search_chunk_sync): the candidates of one hypothesis when an LM and a
\* CTC prefix scorer take part.  The networks are given by three numbers:
\* r rotates the attention log-scores -1 .. -VocabSize over the tokens, l and
\* c do the same for the log-scores of the LM and of the CTC scorer, which
\* are spread so that no two fused scores are equal.  ctc_weight is 0 or 1/2;
\* fused scores are kept doubled, in integers.
JointAttn(v) == 0 - (1 + ((v + VocabSize - inp.r) % VocabSize))
JointLm(v) == 0 - ((VocabSize + 1) * (VocabSize + 1) * ((v + inp.l) % VocabSize))
JointCtc(v) == 0 - ((VocabSize + 1) * ((v + inp.c) % VocabSize))

\* The cumulative score that a state of the CTC prefix scorer stands for:
\* that of the prefix it was computed for (the state of the model), nothing
\* for the initial state.
CtcStateScore(state) ==
    IF Len(state) <= 1 THEN 0
    ELSE SumTo([k \in 1 .. (Len(state) - 1) |-> JointCtc(state[k + 1])], Len(state) - 1)

\* ctc_prefix_score(beam['hyp'], topk_ids, beam['ctc_state']): the cumulative
\* score and the state of the prefix extended by token v.  Both are computed
\* from the state handed in, not from the recorded beam['score_ctc'].
CtcPrefixScore(beam, v) == CtcStateScore(beam.ctc_state) + JointCtc(v)
CtcPrefixState(beam, v) == Append(beam.hyp, v)

\* Lines 933-945: the initial hypothesis of a search.  Its ctc_state is the
\* initial state of the scorer, or None (<< >>) when no CTC scorer is given.
JointParent(has_ctc) ==
    [hyp |-> << cfg.eos >>,
     score |-> 0,
     score_attn |-> 0,
     score_lm |-> 0,
     score_ctc |-> 0,
     ctc_state |-> IF has_ctc THEN << cfg.eos >> ELSE << >>]

\* 2 * (1 - ctc_weight) and 2 * ctc_weight.
AttnWeight2 == IF inp.has_ctc THEN 1 ELSE 2
CtcWeight2 == IF inp.has_ctc THEN 1 ELSE 0

\* A faulty selection: the top tokens by the score with the LM and the CTC
\* scorer added.
TopKIdsFused(beam) ==
    TopK([v \in Vocab |-> (beam.score_attn + JointAttn(v)) * AttnWeight2
                            + 2 * inp.lm_weight * (beam.score_lm + JointLm(v))
                            + CtcWeight2 * CtcPrefixScore(beam, v)],
         inp.beam_width)

\* Lines 1017-1021: topk_ids, the top tokens by total_scores.
TopKIds(beam) ==
    TopK([v \in Vocab |-> (beam.score_attn + JointAttn(v)) * AttnWeight2], inp.beam_width)

\* Lines 1022-1026: total_scores_lm, by position in topk_ids.
TotalScoresLm(beam, topk_ids) ==
    [k \in 1 .. Len(topk_ids) |->
        IF inp.has_lm THEN beam.score_lm + JointLm(topk_ids[k]) ELSE 0]

\* Lines 1057-1062 and 1070: total_scores_ctc, by position in topk_ids.
TotalScoresCtc(beam, topk_ids) ==
    [k \in 1 .. Len(topk_ids) |->
        IF inp.has_ctc THEN CtcPrefixScore(beam, topk_ids[k]) ELSE 0]

\* Lines 1020-1063: total_scores_topk before the second sort, doubled.
TotalScoresTopk(beam, topk_ids) ==
    [k \in 1 .. Len(topk_ids) |->
        (beam.score_attn + JointAttn(topk_ids[k])) * AttnWeight2
        + 2 * inp.lm_weight * TotalScoresLm(beam, topk_ids)[k]
        + 2 * (Len(beam.hyp) - 1 + 1) * inp.lp_weight
        + CtcWeight2 * TotalScoresCtc(beam, topk_ids)[k]]

\* Lines 1064-1067: joint_ids_topk, the positions in the order of the second
\* sort; without a CTC scorer the order is left as it is.
JointIdsTopk(scores) ==
    IF inp.has_ctc
    THEN TopKFrom(scores, DOMAIN scores, Len(scores))
    ELSE [k \in 1 .. Len(scores) |-> k]

\* Lines 1078-1086 for the candidate idx: the end symbol is dropped when the
\* hypothesis is too short ("short") or its attention log-score is not above
\* the threshold ("threshold"); the maximum of an empty slice raises.
JointEosTest(beam, idx) ==
    IF idx # cfg.eos THEN "keep"
    ELSE IF Len(beam.hyp) - 1 < inp.elens * inp.min_len_ratio THEN "short"
    ELSE IF EmptyMax(idx) THEN "raise"
    ELSE IF JointAttn(idx) <= inp.eos_threshold * MaxScoreNoEos([v \in Vocab |-> JointAttn(v)], idx)
         THEN "threshold"
         ELSE "keep"

\* Lines 1072-1102: the loop over k, from position k on.
RECURSIVE JointLoop(_, _, _, _, _, _, _, _)
JointLoop(beam, k, topk_ids0, joint_ids_topk, topk_ids, total_scores_topk, total_scores_lm, total_scores_ctc) ==
    IF k > Len(topk_ids) THEN [raised |-> FALSE, kids |-> << >>]
    ELSE
    LET verdict == JointEosTest(beam, topk_ids[k])
        rest == JointLoop(beam, k + 1, topk_ids0, joint_ids_topk, topk_ids, total_scores_topk,
                          total_scores_lm, total_scores_ctc)
        kid == [hyp |-> Append(beam.hyp, topk_ids[k]),
                score |-> total_scores_topk[k],
                score_attn |-> beam.score_attn + JointAttn(topk_ids[k]),
                score_ctc |-> total_scores_ctc[k],
                score_lm |-> total_scores_lm[k],
                ctc_state |-> IF inp.has_ctc
                              THEN CtcPrefixState(beam, topk_ids0[joint_ids_topk[k]])
                              ELSE << >>]
    IN  IF verdict = "raise" THEN [raised |-> TRUE, kids |-> << >>]
        ELSE IF verdict = "keep"
             THEN [raised |-> rest.raised, kids |-> << kid >> \o rest.kids]
             ELSE rest

\* Lines 1015-1102: the new hypotheses of the parent, in the order of k, and
\* whether the loop raised.  Length normalisation is off.
JointKids(beam) ==
    LET topk_ids0 == TopKIds(beam)
        total_scores_lm == TotalScoresLm(beam, topk_ids0)
        total_scores_ctc == TotalScoresCtc(beam, topk_ids0)
        scores0 == TotalScoresTopk(beam, topk_ids0)
        joint_ids_topk == JointIdsTopk(scores0)
        topk_ids == [k \in 1 .. Len(topk_ids0) |-> topk_ids0[joint_ids_topk[k]]]
        total_scores_topk == [k \in 1 .. Len(topk_ids0) |-> scores0[joint_ids_topk[k]]]
    IN  JointLoop(beam, 1, topk_ids0, joint_ids_topk, topk_ids, total_scores_topk,
                  total_scores_lm, total_scores_ctc)

MaxWeight == 1

JointCall ==
    /\ pc = "idle"
    /\ \E r \in Vocab, l \in Vocab, c \in Vocab, bw \in 1 .. MaxBeam,
          has_lm \in BOOLEAN, has_ctc \in BOOLEAN,
          lw \in 0 .. MaxWeight, lp \in 0 .. MaxWeight,
          mlr \in 0 .. 1, thr \in {1, VocabSize} :
          /\ (has_lm <=> lw > 0)
          /\ inp' = [fn |-> "joint", r |-> r, l |-> l, c |-> c, beam_width |-> bw,
                     has_lm |-> has_lm, has_ctc |-> has_ctc,
                     lm_weight |-> lw, lp_weight |-> lp,
                     elens |-> 1, min_len_ratio |-> mlr, eos_threshold |-> thr]
          /\ hyps' = << JointParent(has_ctc) >>
    /\ pc' = "joint"
    /\ UNCHANGED << cfg, net, ref, dec, b, t, end_hyps, outs, g, aux >>

JointStep ==
    /\ pc = "joint"
    /\ LET r == JointKids(hyps[1])
       IN  IF r.raised
           THEN /\ pc' = "error"
                /\ UNCHANGED hyps
           ELSE /\ pc' = "joint_done"
                /\ hyps' = r.kids
    /\ end_hyps' = hyps
    /\ UNCHANGED << cfg, net, ref, dec, inp, b, t, outs, g, aux >>

\* Line 1123 and the next pass of the loop: a new hypothesis that does not end
\* in the end symbol is live and is extended by the next step.  When the
\* first step has left no new hypothesis, the next pass runs on an empty
\* list and torch.cat raises (line 961).
JointExtend ==
    /\ pc = "joint_done"
    /\ end_hyps[1] = JointParent(inp.has_ctc)
    /\ IF hyps = << >>
       THEN /\ pc' = "error"
            /\ UNCHANGED hyps
       ELSE /\ \E j \in 1 .. Len(hyps) :
                 /\ Last(hyps[j].hyp) # cfg.eos
                 /\ hyps' = << hyps[j] >>
            /\ pc' = "joint"
    /\ UNCHANGED << cfg, net, ref, dec, inp, b, t, end_hyps, outs, g, aux >>

NextJoint == JointCall \/ JointStep \/ JointExtend

InitJoint == InitNet({ [v \in Vocab |-> 1] }, {0}, {FALSE}) /\ net.r0 = 0

SpecJoint == InitJoint /\ [][NextJoint]_vars

JointDone == inp.fn = "joint" /\ pc = "joint_done"

\* The tokens of a list, as a set.
TokenSet(ids) == { ids[k] : k \in 1 .. Len(ids) }

\* The top beam_width tokens of the parent by cumulative attention score.
BestByAttention(beam) ==
    { v \in Vocab :
        Cardinality({ w \in Vocab : JointAttn(w) > JointAttn(v) }) < inp.beam_width }

\* The end-symbol candidate of the parent is dropped by the test of lines
\* 1078-1086.
EosDropped(beam) == JointEosTest(beam, cfg.eos) \in {"short", "threshold"}

\* C22: the tokens that extend a hypothesis are exactly its top beam_width
\* tokens by cumulative attention score; the LM score, the length penalty and
\* the CTC score with its second sort bring in no other token.  Of these
\* tokens only the end symbol may be left without a child, by its own test.
C22_CandidatesAreTopByAttention ==
    JointDone =>
        LET kids == { Last(hyps[k].hyp) : k \in 1 .. Len(hyps) }
            best == BestByAttention(end_hyps[1])
        IN  /\ kids \subseteq best
            /\ best \ kids = (IF EosDropped(end_hyps[1]) THEN best \cap {cfg.eos} ELSE {})
            /\ Len(hyps) = Cardinality(kids)

\* The LM and the CTC scorer both take part, every candidate has a child, the
\* second sort changes the order, and a token outside the set has a better
\* fused score than one in it.
C22_Witness ==
    /\ JointDone
    /\ inp.has_lm /\ inp.has_ctc
    /\ inp.beam_width < VocabSize
    /\ Len(hyps) = inp.beam_width
    /\ cfg.eos \in BestByAttention(end_hyps[1])
    /\ [k \in 1 .. Len(hyps) |-> Last(hyps[k].hyp)] # TopKIds(end_hyps[1])
    /\ TokenSet(TopKIdsFused(end_hyps[1])) # BestByAttention(end_hyps[1])

\* The child that extends the parent by the token idx, as it ought to be
\* recorded.
OwnScores(beam, kid) ==
    LET idx == Last(kid.hyp)
    IN  /\ kid.score = (beam.score_attn + JointAttn(idx)) * AttnWeight2
                        + 2 * inp.lm_weight * (IF inp.has_lm THEN beam.score_lm + JointLm(idx) ELSE 0)
                        + 2 * Len(beam.hyp) * inp.lp_weight
                        + CtcWeight2 * (IF inp.has_ctc THEN CtcPrefixScore(beam, idx) ELSE 0)
        /\ kid.ctc_state = (IF inp.has_ctc THEN CtcPrefixState(beam, idx) ELSE << >>)

OwnCumulative(beam, kid) ==
    LET idx == Last(kid.hyp)
    IN  /\ kid.score_lm = (IF inp.has_lm THEN beam.score_lm + JointLm(idx) ELSE 0)
        /\ kid.score_ctc = (IF inp.has_ctc THEN CtcPrefixScore(beam, idx) ELSE 0)

\* C23: in joint CTC/attention decoding every child records the token, the
\* fused score, the CTC state, the cumulative CTC score and the cumulative LM
\* score of one and the same candidate token.
C23_ChildRecordsOwnScores ==
    (JointDone /\ inp.has_ctc) =>
        \A k \in 1 .. Len(hyps) :
            OwnScores(end_hyps[1], hyps[k]) /\ OwnCumulative(end_hyps[1], hyps[k])

\* What holds: the fused score and the CTC state are the token's own, and
\* so are the cumulative scores when no CTC scorer sorts a second time.
ChildRecordsOwnFused ==
    JointDone =>
        \A k \in 1 .. Len(hyps) :
            /\ OwnScores(end_hyps[1], hyps[k])
            /\ ~inp.has_ctc => OwnCumulative(end_hyps[1], hyps[k])

\* ------------------------------------------------ when beam_search stops
\* C24: no decoding step is executed for an utterance whose completed set
\* holds beam_width hypotheses; in oracle mode hypotheses are completed at the
\* step equal to the reference length and at no earlier step, so every
\* completed and every returned oracle hypothesis has reference length + 1
\* tokens.
C24_StopsWhenBeamCompleted ==
    /\ (inp.fn = "beam_search" /\ pc = "step") =>
          Len(end_hyps) < inp.params.recog_beam_width
    /\ (InBeamSearch /\ inp.params.recog_oracle) =>
          /\ \A k \in 1 .. Len(end_hyps) :
                Len(end_hyps[k].hyp) = Len(inp.refs_id[b]) + 2
          /\ aux.steps <= Len(inp.refs_id[b]) => end_hyps = << >>
          /\ pc = "done" =>
                \A k \in 1 .. inp.nbest :
                    Len(outs.nbest_hyps_idx[b][k]) = Len(inp.refs_id[b]) + 1

\* An oracle search over a reference of two tokens has returned a hypothesis
\* that emitted the end symbol before its last step.
C24_Witness ==
    /\ inp.fn = "beam_search" /\ pc = "done" /\ inp.params.recog_oracle
    /\ Len(inp.refs_id[1]) = 2
    /\ Len(end_hyps) >= inp.params.recog_beam_width
    /\ \E k \in 2 .. 3 : end_hyps[1].hyp[k] = cfg.eos
    /\ Len(outs.nbest_hyps_idx[1][1]) = 3

\* A search that is not an oracle search stopped with its beam completed
\* before the step limit.
StoppedEarly ==
    /\ inp.fn = "beam_search" /\ pc = "done" /\ ~inp.params.recog_oracle
    /\ Len(end_hyps) >= inp.params.recog_beam_width
    /\ aux.steps < YTime(1)

\* ------------------------------------------------ chunk_sync: passing through
\* A step of the chunk has been executed and the chunk is still the current one.
AfterChunkStep == InChunkSync /\ pc \in {"chunk_step", "chunk_return"} /\ aux.steps > 0

\* C25: a hypothesis whose attention sums to zero at a step is carried into
\* the candidate list with its tokens, scores, states and its whole
\* attention history as they were before the step.
C25_PassedThroughUnchanged ==
    AfterChunkStep =>
        \A j \in 1 .. Len(aux.parents) :
            ChunkAw(aux.parents[j]) = 0 =>
                \E k \in 1 .. Len(aux.kids) : aux.kids[k] = aux.parents[j]

\* What holds: it is carried over with the last entry of its attention
\* history replaced by zeros, and everything else as it was.
PassedThroughButLastAw ==
    AfterChunkStep =>
        \A j \in 1 .. Len(aux.parents) :
            ChunkAw(aux.parents[j]) = 0 =>
                \E k \in 1 .. Len(aux.kids) :
                    /\ aux.kids[k] = [aux.parents[j] EXCEPT !.aws[Len(aux.parents[j].aws)] = 0]
                    /\ Front(aux.kids[k].aws) = Front(aux.parents[j].aws)

\* ------------------------------------------------ the backward decoder
GreedyDone == inp.fn = "greedy" /\ pc = "greedy_done"

\* The attention rows of utterance u in decoding order, up to its length.
DecodedRows(u) == Column(g.aws_batch, u, g.ylens[u])

\* The tokens of utterance u in decoding order, up to its length.
DecodedTokens(u) == Column(g.hyps_batch, u, g.ylens[u])

\* C26: for a backward decoder greedy returns the tokens in reversed decoding
\* order and the alignment reversed along the output-step axis, so that row i
\* is the attention of the step that produced returned token i.
C26_BackwardAlignmentReversed ==
    (GreedyDone /\ cfg.bwd /\ ~inp.exclude_eos) =>
        \A u \in 1 .. inp.bs :
            /\ g.hyps[u] = Reverse(DecodedTokens(u))
            /\ g.aws[u] = Reverse(DecodedRows(u))

\* What holds: the tokens are reversed, the rows of the alignment are in
\* decoding order.
BackwardRowsInDecodingOrder ==
    (GreedyDone /\ cfg.bwd /\ ~inp.exclude_eos) =>
        \A u \in 1 .. inp.bs :
            /\ g.hyps[u] = Reverse(DecodedTokens(u))
            /\ g.aws[u] = DecodedRows(u)

\* ------------------------------------------------ the n-best list
BeamDone == inp.fn = "beam_search" /\ pc = "done"

\* The hypotheses of the last utterance that are returned.
ReturnedHyps == [k \in 1 .. inp.nbest |-> end_hyps[k]]

IsReturned(h) == \E k \in 1 .. inp.nbest : end_hyps[k] = h

\* C28: the n-best list is ordered by non-increasing fused score, and no
\* hypothesis that completed during the search and is not returned has a
\* higher fused score than a returned one.
C28_NbestAreTheBestCompleted ==
    BeamDone =>
        /\ \A k \in 1 .. (inp.nbest - 1) :
              ~RatLess(end_hyps[k].score, end_hyps[k + 1].score)
        /\ \A j \in 1 .. Len(aux.completed) :
              ~IsReturned(aux.completed[j]) =>
                  \A k \in 1 .. inp.nbest :
                      ~RatLess(end_hyps[k].score, aux.completed[j].score)

\* The end of a search, entered at its last step.  The candidates of the step
\* and the hypotheses completed before it are given with their scores: under
\* length normalisation the score of a hypothesis is the mean of its tokens'
\* log-probabilities, which a network is free to make larger for a longer
\* hypothesis than for a shorter one completed earlier.
NonEos(k) == (cfg.eos + 1 + (k % (VocabSize - 1))) % VocabSize

\* The hypothesis with the tokens toks after <sos> and the mean score sc.
ScoredHyp(toks, sc) ==
    [InitialHyp(ZeroState, NoneState) EXCEPT
        !.hyp = << cfg.eos >> \o toks,
        !.score = Rat(sc, 1),
        !.score_attn = sc * Len(toks),
        !.aws = << -1 >> \o [k \in 1 .. Len(toks) |-> 1]]

\* The k-th hypothesis completed before the last step: at step k - 1.
EarlierCompleted(k, sc) == ScoredHyp([j \in 1 .. k |-> IF j = k THEN cfg.eos ELSE NonEos(0)], sc)

\* The k-th candidate of the last step (step MaxElen), with or without the
\* end symbol.
LastCandidate(k, ends, sc) ==
    ScoredHyp([j \in 1 .. (MaxElen + 1) |->
                 IF j = MaxElen + 1 THEN (IF ends THEN cfg.eos ELSE NonEos(0))
                 ELSE IF j = MaxElen THEN NonEos(k) ELSE NonEos(k \div (VocabSize - 1))], sc)

NonIncreasing(sc) == \A k \in 1 .. (Len(sc) - 1) : sc[k + 1] <= sc[k]

\* Lines 1104-1105, with the state of the search before them.
LastStepCall ==
    /\ pc = "idle"
    /\ \E bw \in 2 .. MaxBeam, nb \in 1 .. MaxBeam, c \in 0 .. (MaxBeam - 1), m \in 1 .. MaxBeam :
         \E osc \in [1 .. c -> 1 .. MaxScore], sc \in [1 .. m -> 1 .. MaxScore],
            fl \in [1 .. m -> BOOLEAN] :
          /\ nb <= bw /\ c < bw /\ m <= bw
          /\ NonIncreasing([k \in 1 .. m |-> 0 - sc[k]])
          /\ inp' = BeamInput(1, << MaxElen >>, << 0 >>, FALSE, << << >> >>, FALSE, << 0 >>,
                              nb, FALSE, Params(FALSE, bw, 0, 0, TRUE, FALSE, 3, FALSE))
          /\ end_hyps' = [k \in 1 .. c |-> EarlierCompleted(k, 0 - osc[k])]
          /\ hyps' = [k \in 1 .. m |-> LastCandidate(k - 1, fl[k], 0 - sc[k])]
    /\ pc' = "complete"
    /\ b' = 1
    /\ t' = MaxElen
    /\ outs' = NoOuts
    /\ aux' = [NoAux EXCEPT !.dec_at_call = dec, !.calls = 1, !.steps = MaxElen + 1]
    /\ UNCHANGED << cfg, net, ref, dec, g >>

\* Lines 1106-1123 at the last step: hyps holds new_hyps_sorted.
Complete ==
    /\ pc = "complete"
    /\ LET done == SelectSeq(hyps, LAMBDA h : IsComplete(h, b, t))
           new_hyps == SelectSeq(hyps, LAMBDA h : ~IsComplete(h, b, t))
           ends == end_hyps \o done
       IN  /\ aux' = [aux EXCEPT !.completed = done, !.kids = hyps]
           /\ IF Len(ends) >= inp.params.recog_beam_width
              THEN /\ end_hyps' = Take(ends, inp.params.recog_beam_width)
                   /\ UNCHANGED hyps
              ELSE /\ end_hyps' = ends
                   /\ hyps' = new_hyps
    /\ pc' = "global"
    /\ UNCHANGED << cfg, net, ref, dec, inp, b, t, outs, g >>

NextLastStep == LastStepCall \/ Complete \/ Finish \/ Return

InitLastStep == InitNet({ [v \in Vocab |-> 1] }, {0}, {FALSE}) /\ net.r0 = 0

SpecLastStep == InitLastStep /\ [][NextLastStep]_vars

\* What holds: the list is ordered, and the best hypothesis returned is the
\* best of all that completed.
BestIsBestCompleted ==
    BeamDone =>
        /\ \A k \in 1 .. (inp.nbest - 1) :
              ~RatLess(end_hyps[k].score, end_hyps[k + 1].score)
        /\ \A j \in 1 .. Len(aux.completed) :
              ~RatLess(end_hyps[1].score, aux.completed[j].score)

\* ------------------------------------------- carry-over on a new decoder
\* Calls on a decoder on which no search has finished: dstates_final is None
\* and prev_spk is the initial '' (0 here).  Speaker 0 is that of an
\* utterance whose speaker equals the initial prev_spk.
FreshBeamInputs ==
    { BeamInput(1, << n >>, << 0 >>, FALSE, << << >> >>, TRUE, << s >>, 1, FALSE,
                Params(FALSE, bw, 0, 0, TRUE, FALSE, 1, carry)) :
        n \in 1 .. MaxElen, s \in 0 .. 1, bw \in 1 .. MaxBeam, carry \in BOOLEAN }

FreshChunkInputs ==
    { ChunkInput(n, 0, TRUE, carry, Params(FALSE, bw, 0, 0, TRUE, FALSE, 1, FALSE)) :
        n \in 1 .. MaxElen, bw \in 1 .. MaxBeam, carry \in BOOLEAN }

CallFreshBeam == pc = "idle" /\ \E i \in FreshBeamInputs : BeamSearchCall(i)

CallFreshChunk == pc = "idle" /\ \E i \in FreshChunkInputs : ChunkCall(i) /\ ref' = ref

NextFresh ==
    \/ CallFreshBeam
    \/ CallFreshChunk
    \/ UttInit
    \/ Step
    \/ Finish
    \/ Return
    \/ ChunkStep
    \/ ChunkReturn

InitFresh == InitWith(Durs)

SpecFresh == InitFresh /\ [][NextFresh]_vars

\* The call in progress asked for the decoder state to be carried over and
\* no final state had been stored on the decoder when it was made.
CarryOverBeforeAnyFinal ==
    /\ pc # "idle"
    /\ aux.dec_at_call.dstates_final = NoneState
    /\ \/ /\ inp.fn = "beam_search"
          /\ inp.has_speakers
          /\ inp.speakers[1] = aux.dec_at_call.prev_spk
          /\ inp.params.recog_asr_state_carry_over
       \/ /\ inp.fn = "beam_search_chunk_sync"
          /\ inp.first
          /\ inp.state_carry_over

\* The initial hypothesis of the call is in place and no step has run.
InitialHypInPlace ==
    /\ pc \in {"step", "chunk_step"}
    /\ t = 0
    /\ aux.steps = 0
    /\ Len(hyps) = 1
    /\ hyps[1].hyp = << cfg.eos >>

\* C29: when carry-over is requested before any final state has been stored
\* on the decoder (state_carry_over on the first chunk, or
\* recog_asr_state_carry_over with a speaker equal to the initial prev_spk),
\* decoding starts from the zero recurrent state and completes without
\* failure.
C29_FreshCarryOverStartsFromZero ==
    CarryOverBeforeAnyFinal =>
        /\ pc # "error"
        /\ InitialHypInPlace => hyps[1].dstates = ZeroState

\* What holds: such a call starts from the None stored at construction and
\* fails at its first step.
FreshCarryOverStartsFromNone ==
    CarryOverBeforeAnyFinal =>
        /\ InitialHypInPlace => hyps[1].dstates = NoneState
        /\ pc \notin {"done", "global", "chunk_return"}
        /\ pc = "error" => aux.raised = "none"

\* Without the request the same calls start from the zero state and do not
\* fail on a missing state.
FreshWithoutCarryStartsFromZero ==
    (pc # "idle" /\ ~CarryOverBeforeAnyFinal) =>
        /\ InitialHypInPlace => hyps[1].dstates = ZeroState
        /\ ~(pc = "error" /\ aux.raised = "none")

\* ------------------------------------- teacher forcing on a batch (greedy)
OracleGreedy == inp.fn = "greedy" /\ inp.params.recog_oracle /\ inp.has_refs /\ pc # "idle"

DifferentLengths == \E u \in 1 .. inp.bs, w \in 1 .. inp.bs : Len(inp.refs_id[u]) # Len(inp.refs_id[w])

\* Before step t > 0 every utterance holds token t of its own reference.
FedOwnReference ==
    (pc = "greedy_step" /\ t > 0) =>
        \A u \in 1 .. inp.bs : t <= Len(inp.refs_id[u]) /\ g.y[u] = inp.refs_id[u][t]

\* C30: teacher-forced greedy decoding of a batch whose references have
\* different lengths completes without failure: at every step each utterance
\* is fed a token of its own reference, and an utterance whose reference is
\* exhausted causes no out-of-range access.
C30_OracleBatchCompletes ==
    (OracleGreedy /\ DifferentLengths) =>
        /\ pc # "error"
        /\ FedOwnReference

\* What holds: with references of one length the batch is decoded without
\* failure, each utterance on its own reference; with different lengths the
\* tokens fed are the utterances' own as long as the search runs, and it fails
\* only at a step past the end of the shortest reference.
OracleBatchOfOneLength ==
    OracleGreedy =>
        /\ FedOwnReference
        /\ ~DifferentLengths => pc # "error"
        /\ pc = "error" => \E u \in 1 .. inp.bs : t + 1 > Len(inp.refs_id[u])

\* ------------------------------------------------ scores along a hypothesis
\* Every new hypothesis of the step scores no more than the one it extends.
\* Length normalisation is off in these searches; the parent is the initial
\* hypothesis or a new hypothesis of the first step.
KidsBelowParent ==
    \A k \in 1 .. Len(hyps) : hyps[k].score <= end_hyps[1].score

\* C27: with length normalisation off and a single model, the fused score of
\* every new hypothesis is no greater than the fused score of the hypothesis
\* it extends, for every setting of the LM, CTC and penalty weights.
C27_ScoreNeverIncreases == JointDone => KidsBelowParent

\* The same with the length penalty off, where nothing is added to the
\* log-probabilities: it fails as well, when the parent was ordered by the
\* second sort and recorded the LM score of another token.
ScoreNeverIncreasesUnpenalised ==
    (JointDone /\ inp.lp_weight = 0) => KidsBelowParent

\* What holds: with the length penalty off and no CTC scorer (no second
\* sort) the score never increases, under every LM weight, and neither does
\* it at the first step of a search, with or without a CTC scorer.
ScoreNeverIncreasesWithoutSecondSort ==
    (JointDone /\ inp.lp_weight = 0 /\ (~inp.has_ctc \/ end_hyps[1] = JointParent(inp.has_ctc)))
        => KidsBelowParent

\* With the length penalty off, a parent whose recorded cumulative LM score
\* is its own has no child above it.
ScoreNeverIncreasesOwnLm ==
    (JointDone /\ inp.lp_weight = 0
       /\ end_hyps[1].score_lm = (IF inp.has_lm THEN JointLm(Last(end_hyps[1].hyp)) ELSE 0))
        => KidsBelowParent

====
